---- MODULE Spec2Model ----
(***************************************************************************)
(* Verification model of kuzja111/thermo:                                  *)
(*   - the cubic equation-of-state core and its Peng-Robinson              *)
(*     specialisation (src/thermo/eos.py),                                 *)
(*   - the pressure-dependent property framework                           *)
(*     (src/thermo/utils/tp_dependent_property.py).                        *)
(*                                                                         *)
(* Real-valued quantities are abstracted:                                  *)
(*   - a volume root is a record [re, im]; the imaginary part is counted   *)
(*     in units of 5e-10, so that the tolerance 1e-9 of set_from_PT is 2   *)
(*     units, a rounding residue below the tolerance is 1 unit and the     *)
(*     placeholder root 1j is 2*10^9 units;                                *)
(*   - a value solved in closed form is a term naming its inputs           *)
(*     (<<"P_from_TV", T, V>>), a supplied value is <<"given", x>>;        *)
(*   - the derivative/departure bundle of a root is the record of the      *)
(*     values it is computed from.                                         *)
(* Python's None is NoneVal for numbers, <<>> for an attribute that is not *)
(* set and "None" for a method name.                                       *)
(***************************************************************************)
EXTENDS Integers, Sequences, FiniteSets, TLC

VARIABLES
    eos,        \* the PR / CUBIC_EOS object the last call worked on
    eos_call,   \* the last call on the EOS component: its inputs and the exception it raised
    tp,         \* a TPDependentProperty object
    tp_call,    \* the call on tp that has just returned: its inputs, its result, its exception
    wilson,     \* a Wilson object: its inputs and its cached attributes
    wilson_call, \* the call on wilson that has just returned
    fn_call     \* the call of a function that keeps no state: its arguments and its result

eos_vars == <<eos, eos_call>>
tp_vars == <<tp, tp_call>>
wilson_vars == <<wilson, wilson_call>>
fn_vars == <<fn_call>>
vars == <<eos, eos_call, tp, tp_call, wilson, wilson_call, fn_call>>

----------------------------------------------------------------------------
(* Bounds of the model *)

\* largest real part of a volume root, and largest supplied V
MaxVol == 2
\* largest supplied T and P
MaxTP == 1

(* Program constants *)

\* abs(i.imag) > 1E-9, in units of 5e-10
IMAG_TOL == 2
\* the imaginary part of the placeholder root 1j, in units of 5e-10
ONE_J == 2000000000

NoneVal == 0 - 1

\* a rounding residue: nonzero, not above the tolerance
NOISE == IMAG_TOL - 1
\* an imaginary part of a genuinely complex root
BIG == IMAG_TOL + 1

abs(x) == IF x < 0 THEN 0 - x ELSE x

----------------------------------------------------------------------------
(* CUBIC_EOS *)

ImagParts == {0, NOISE, IMAG_TOL, BIG, 0 - BIG}
Roots == [re : 1..MaxVol, im : ImagParts]
RootTriples == [1..3 -> Roots]

\* the PIP value computed for each real volume: 1 is the boundary value
\* (vapor-like), 2 is above it (liquid-like)
PIPValues == {1, 2}
PIPFunctions == [1..MaxVol -> PIPValues]

\* an object on which no attribute has been set
FreshObject ==
    [constructed |-> FALSE,
     T |-> <<>>, P |-> <<>>, V |-> <<>>,
     phase |-> "", Vl |-> <<>>, Vg |-> <<>>,
     bundle_l |-> <<>>, bundle_g |-> <<>>]

phase_identification_parameter_phase(PIP) == IF PIP > 1 THEN "l" ELSE "g"

\* everything set_derivs_from_phase computes for a root: all of it is a function
\* of T, P, V and the EOS parameters; PIP is the value the phase is decided by
Bundle(T, P, V, pip) == [T |-> T, P |-> P, V |-> V, PIP |-> pip[V.re]]

derivs_phase(V, pip) == phase_identification_parameter_phase(pip[V.re])

set_derivs_from_phase(self, T, P, V, pip) ==
    IF derivs_phase(V, pip) = "l"
    THEN [self EXCEPT !.bundle_l = <<Bundle(T, P, V, pip)>>]
    ELSE [self EXCEPT !.bundle_g = <<Bundle(T, P, V, pip)>>]

i_roots(Vs) == Cardinality({i \in 1..3 : abs(Vs[i].im) > IMAG_TOL})

real_roots(Vs) == SelectSeq(Vs, LAMBDA r : r.im = 0)

\* min and max of roots whose imaginary part is 0
MinRoot(rs) == CHOOSE r \in {rs[i] : i \in 1..Len(rs)} :
                   \A j \in 1..Len(rs) : r.re <= rs[j].re
MaxRoot(rs) == CHOOSE r \in {rs[i] : i \in 1..Len(rs)} :
                   \A j \in 1..Len(rs) : r.re >= rs[j].re

\* the i_roots = 2 branch
set_from_PT_single(self, T, P, Vs, pip) ==
    IF real_roots(Vs) = <<>>
    THEN [obj |-> self, exc |-> "IndexError"]
    ELSE LET V == real_roots(Vs)[1]
             s1 == set_derivs_from_phase(self, T, P, V, pip)
             s2 == [s1 EXCEPT !.phase = derivs_phase(V, pip)]
         IN  [obj |-> IF s2.phase = "l" THEN [s2 EXCEPT !.Vl = <<V>>]
                                        ELSE [s2 EXCEPT !.Vg = <<V>>],
              exc |-> ""]

\* the i_roots = 1 branch
set_from_PT_two(self, T, P, Vs, pip) ==
    IF real_roots(Vs) = <<>>
    THEN [obj |-> self, exc |-> "ValueError"]
    ELSE LET rs == real_roots(Vs)
             s1 == [self EXCEPT !.Vl = <<MinRoot(rs)>>, !.Vg = <<MaxRoot(rs)>>]
             s2 == set_derivs_from_phase(s1, T, P, s1.Vl[1], pip)
             s3 == set_derivs_from_phase(s2, T, P, s1.Vg[1], pip)
         IN  [obj |-> s3, exc |-> ""]

\* set_from_PT with its last branch taken only when every root is complex
set_from_PT_no_raise(self, T, P, Vs, pip) ==
    IF i_roots(Vs) = 2 THEN set_from_PT_single(self, T, P, Vs, pip)
    ELSE IF i_roots(Vs) <= 1 THEN set_from_PT_two(self, T, P, Vs, pip)
    ELSE [obj |-> self, exc |-> "Three roots not possible"]

set_from_PT(self, T, P, Vs, pip) ==
    IF i_roots(Vs) = 2 THEN set_from_PT_single(self, T, P, Vs, pip)
    ELSE IF i_roots(Vs) = 1 THEN set_from_PT_two(self, T, P, Vs, pip)
    ELSE [obj |-> self, exc |-> "Three roots not possible"]

----------------------------------------------------------------------------
(* PR *)

Given(x) == IF x = NoneVal THEN <<>> ELSE <<"given", x>>

\* Python truthiness of a one-element list such as [T and P]
ListTruthy(list) == Len(list) > 0

\* T and P: the first operand when it is falsy, else the second
PyAnd(x, y) == IF x = NoneVal THEN x ELSE y

\* the argument check of PR.__init__, as written
ArgCheckRaises(T, P, V) ==
    ~(ListTruthy(<<PyAnd(T, P)>>) \/ ListTruthy(<<PyAnd(T, V)>>) \/ ListTruthy(<<PyAnd(P, V)>>))

\* what all_V can return for a cubic with real coefficients, evaluated in
\* floating point: one real root and a conjugate pair, or three real roots,
\* each real root with or without a rounding residue in its imaginary part
RealIsh == {r \in Roots : r.im \in {0, NOISE}}
ConjugatePairs == {p \in [1..2 -> Roots] :
                     /\ p[1].re = p[2].re
                     /\ p[1].im = BIG /\ p[2].im = 0 - BIG}
all_V_results ==
    {<<r, p[1], p[2]>> : r \in RealIsh, p \in ConjugatePairs}
    \cup {<<p[1], p[2], r>> : r \in RealIsh, p \in ConjugatePairs}
    \cup {t \in RootTriples : \A i \in 1..3 : t[i] \in RealIsh}

VRoot(V) == [re |-> V, im |-> 0]
OneJ == [re |-> 0, im |-> ONE_J]

\* PR.__init__ with one placeholder root only: Vs = [V, V, 1j]
PR_init_one_placeholder(T, P, V, roots, pip) ==
    LET self0 == [FreshObject EXCEPT !.T = Given(T), !.P = Given(P), !.V = Given(V)]
        fail(e) == [obj |-> FreshObject, exc |-> e]
        finish(self, Vs) ==
            LET r == set_from_PT(self, self.T, self.P, Vs, pip)
            IN  IF r.exc = "" THEN [obj |-> [r.obj EXCEPT !.constructed = TRUE], exc |-> ""]
                ELSE fail(r.exc)
    IN  IF ArgCheckRaises(T, P, V)
        THEN fail("Either T and P, or T and V, or P and V are required")
        ELSE IF V # NoneVal
        THEN IF P # NoneVal
             THEN finish([self0 EXCEPT !.T = <<"T_from_PV", P, V>>],
                         <<VRoot(V), VRoot(V), OneJ>>)
             ELSE IF T = NoneVal THEN fail("TypeError")
             ELSE finish([self0 EXCEPT !.P = <<"P_from_TV", T, V>>],
                         <<VRoot(V), VRoot(V), OneJ>>)
        ELSE IF T = NoneVal \/ P = NoneVal THEN fail("TypeError")
        ELSE finish(self0, roots)

PR_init(T, P, V, roots, pip) ==
    LET self0 == [FreshObject EXCEPT !.T = Given(T), !.P = Given(P), !.V = Given(V)]
        fail(e) == [obj |-> FreshObject, exc |-> e]
        finish(self, Vs) ==
            LET r == set_from_PT(self, self.T, self.P, Vs, pip)
            IN  IF r.exc = "" THEN [obj |-> [r.obj EXCEPT !.constructed = TRUE], exc |-> ""]
                ELSE fail(r.exc)
    IN  IF ArgCheckRaises(T, P, V)
        THEN fail("Either T and P, or T and V, or P and V are required")
        ELSE IF V # NoneVal
        THEN IF P # NoneVal
             THEN finish([self0 EXCEPT !.T = <<"T_from_PV", P, V>>],
                         <<VRoot(V), OneJ, OneJ>>)
             ELSE IF T = NoneVal THEN fail("TypeError")
             ELSE finish([self0 EXCEPT !.P = <<"P_from_TV", T, V>>],
                         <<VRoot(V), OneJ, OneJ>>)
        ELSE IF T = NoneVal \/ P = NoneVal THEN fail("TypeError")
        ELSE finish(self0, roots)

----------------------------------------------------------------------------
(* The calls *)

ArgValues == {NoneVal} \cup (1..MaxTP)
VolValues == {NoneVal} \cup (1..MaxVol)

NoRoots == <<OneJ, OneJ, OneJ>>

EosStart ==
    [op |-> "none", T |-> NoneVal, P |-> NoneVal, V |-> NoneVal,
                   Vs |-> NoRoots, pip |-> [v \in 1..MaxVol |-> 1], exc |-> ""]

EosInit ==
    /\ eos = FreshObject
    /\ eos_call = EosStart

\* PR(Tc, Pc, omega, T, P, V); roots is what all_V returns when it is called
Construct ==
    /\ eos_call.op = "none"
    /\ \E T \in ArgValues, P \in ArgValues, V \in VolValues, pip \in PIPFunctions :
        \E roots \in (IF V = NoneVal /\ T # NoneVal /\ P # NoneVal
                      THEN all_V_results ELSE {NoRoots}) :
          LET r == PR_init(T, P, V, roots, pip)
          IN  /\ eos' = r.obj
              /\ eos_call' = [op |-> "PR", T |-> T, P |-> P, V |-> V,
                              Vs |-> roots, pip |-> pip, exc |-> r.exc]
    /\ UNCHANGED <<tp_vars, wilson_vars, fn_vars>>

\* set_from_PT on an object that has no attribute yet, for any triple of roots
SetFromPT ==
    /\ eos_call.op = "none"
    /\ \E T \in 1..MaxTP, P \in 1..MaxTP, Vs \in RootTriples, pip \in PIPFunctions :
        LET r == set_from_PT(FreshObject, Given(T), Given(P), Vs, pip)
        IN  /\ eos' = r.obj
            /\ eos_call' = [op |-> "set_from_PT", T |-> T, P |-> P, V |-> NoneVal,
                            Vs |-> Vs, pip |-> pip, exc |-> r.exc]
    /\ UNCHANGED <<tp_vars, wilson_vars, fn_vars>>

\* the object of the last call is dropped; the next call starts from nothing
EosRelease ==
    /\ eos_call.op # "none"
    /\ eos' = FreshObject
    /\ eos_call' = EosStart
    /\ UNCHANGED <<tp_vars, wilson_vars, fn_vars>>

EosNext == Construct \/ SetFromPT \/ EosRelease

----------------------------------------------------------------------------
(* PR: one state constructed along another path *)

\* P = R*T/(V - b) - a_alpha/(V*(V + b) + b*(V - b)), as the number a caller
\* reads from obj.P: a value of its own for every T and V
PressureOf(T, V) == MaxTP + (T - 1) * MaxVol + V

\* the closed form for T, given P and V: the temperature at which the
\* equation of state gives P at V
T_from_PV(P, V) ==
    IF \E T \in 1..MaxTP : PressureOf(T, V) = P
    THEN CHOOSE T \in 1..MaxTP : PressureOf(T, V) = P
    ELSE NoneVal

\* what all_V returns for T and the pressure the equation gives at T and V:
\* V is a root of that cubic, with or without a rounding residue
all_V_results_with(V) ==
    {t \in all_V_results : \E i \in 1..3 : t[i].re = V /\ t[i] \in RealIsh}

\* b = PR(Tc, Pc, omega, T=T, V=V) has been constructed; now
\* a = PR(Tc, Pc, omega, T=b.T, P=b.P)
ReconstructFromTP ==
    /\ eos_call.op = "PR" /\ eos_call.exc = ""
    /\ eos_call.T # NoneVal /\ eos_call.V # NoneVal /\ eos_call.P = NoneVal
    /\ \E roots \in all_V_results_with(eos_call.V) :
         LET P == PressureOf(eos_call.T, eos_call.V)
             r == PR_init(eos_call.T, P, NoneVal, roots, eos_call.pip)
         IN  /\ eos' = r.obj
             /\ eos_call' = [op |-> "PR", T |-> eos_call.T, P |-> P, V |-> NoneVal,
                             Vs |-> roots, pip |-> eos_call.pip, exc |-> r.exc]
    /\ UNCHANGED <<tp_vars, wilson_vars, fn_vars>>

\* b = PR(Tc, Pc, omega, T=T, V=V) has been constructed; now
\* c = PR(Tc, Pc, omega, V=b.V, P=b.P)
ReconstructFromPV ==
    /\ eos_call.op = "PR" /\ eos_call.exc = ""
    /\ eos_call.T # NoneVal /\ eos_call.V # NoneVal /\ eos_call.P = NoneVal
    /\ LET P == PressureOf(eos_call.T, eos_call.V)
           r == PR_init(NoneVal, P, eos_call.V, NoRoots, eos_call.pip)
       IN  /\ eos' = r.obj
           /\ eos_call' = [op |-> "PR", T |-> NoneVal, P |-> P, V |-> eos_call.V,
                           Vs |-> NoRoots, pip |-> eos_call.pip, exc |-> r.exc]
    /\ UNCHANGED <<tp_vars, wilson_vars, fn_vars>>

----------------------------------------------------------------------------
(* TPDependentProperty: values and the collaborators of the base class *)

\* largest temperature and pressure a call is made with
MaxCoord == 3

\* thermo.utils.names.NEGLECT_P
NEGLECT_P == "NEGLECT_P"

\* the preference order of a subclass, and the methods its load_all_methods
\* can make available
ranked_methods_P == <<"COOLPROP", "EOS", NEGLECT_P>>
RankedSet == {ranked_methods_P[i] : i \in 1..Len(ranked_methods_P)}

\* T_limits of the pressure-dependent correlations
T_limits == [m \in {"COOLPROP", "EOS"} |->
                IF m = "EOS" THEN <<1, 3>> ELSE <<0, 2>>]

\* the low-pressure method of the base class and its validity test
LowMethods == {"None", "LOWP"}
test_method_validity(T, method) == 1 < T /\ T < 3

\* property values; test_property_validity of the base class accepts the
\* positive ones
PropValues == 0..2
test_property_validity(prop) == prop > 0

Temps == 1..MaxCoord
Press == 1..MaxCoord

\* str(n) appended to 'Tabular data series #'
AutoName(n) ==
    CASE n = 0 -> "Tabular data series #0"
      [] n = 1 -> "Tabular data series #1"
      [] n = 2 -> "Tabular data series #2"
      [] OTHER -> "Tabular data series #3+"

\* the outcome of a call of calculate_P or of T_dependent_property: it raises,
\* or it returns a value (NoneVal for None)
Raises == [raises |-> TRUE, value |-> NoneVal]
Returns(v) == [raises |-> FALSE, value |-> v]
CalcOutcomes == {Raises} \cup {Returns(v) : v \in PropValues}
TdepOutcomes == {Raises, Returns(NoneVal), Returns(2)}

----------------------------------------------------------------------------
(* TPDependentProperty: the methods *)

\* a function object: what it computes and the address id() gives for it
NoneFn == [fn |-> "None", id |-> 0]
\* functions of a module: they live as long as the program
LogFn == [fn |-> "log", id |-> 10]
ExpFn == [fn |-> "exp", id |-> 11]
\* functions a caller creates (lambdas): MaxId addresses are handed out, and
\* the address of a dead object may be handed out again
MaxId == 2
FnNames == {"log", "sqrt"}
FunctionObjects == [fn : FnNames, id : 1..MaxId]

\* bool(f) of a transform
Truthy(f) == f # NoneFn

NoTP ==
    [constructed |-> FALSE,
     all_methods_P |-> {},
     method_P |-> "None",
     tabular_data_P |-> <<>>,
     tabular_extrapolation_permitted |-> TRUE,
     TP_cached |-> <<>>,
     prop_cached |-> NoneVal,
     RAISE_PROPERTY_CALCULATION_ERROR |-> FALSE,
     method |-> "None",
     n_tabular_data |-> 0,
     all_methods |-> {},
     P_correlations |-> <<>>,
     parameters |-> <<>>,
     interpolation_T |-> NoneFn,
     interpolation_P |-> NoneFn,
     interpolation_property |-> NoneFn,
     interpolation_property_inv |-> NoneFn,
     tabular_data_interpolators_P |-> <<>>]

TabNames(self) == DOMAIN self.tabular_data_P

\* the setter with the cache reset left out
method_P_setter_keeps_cache(self, method_P) ==
    IF method_P \notin self.all_methods_P /\ method_P # "None"
    THEN [obj |-> self, exc |-> "ValueError"]
    ELSE [obj |-> [self EXCEPT !.method_P = method_P], exc |-> ""]

\* the setter with the cache reset moved before the membership test
method_P_setter_clears_first(self, method_P) ==
    IF method_P \notin self.all_methods_P /\ method_P # "None"
    THEN [obj |-> [self EXCEPT !.TP_cached = <<>>], exc |-> "ValueError"]
    ELSE [obj |-> [self EXCEPT !.TP_cached = <<>>, !.method_P = method_P], exc |-> ""]

\* the setter with the membership test left out
method_P_setter_unchecked(self, method_P) ==
    [obj |-> [self EXCEPT !.TP_cached = <<>>, !.method_P = method_P], exc |-> ""]

method_P_setter(self, method_P) ==
    IF method_P \notin self.all_methods_P /\ method_P # "None"
    THEN [obj |-> self, exc |-> "ValueError"]
    ELSE [obj |-> [self EXCEPT !.TP_cached = <<>>, !.method_P = method_P], exc |-> ""]

\* all(b > a for a, b in zip(xs, xs[1:]))
Increasing(xs) == \A i \in 1..(Len(xs) - 1) : xs[i + 1] > xs[i]

\* np.array(properties).ravel()
RECURSIVE Ravel(_)
Ravel(rows) == IF rows = <<>> THEN <<>> ELSE Head(rows) \o Ravel(Tail(rows))

AllValid(properties) ==
    \A i \in 1..Len(Ravel(properties)) : test_property_validity(Ravel(properties)[i])

\* tabular_data_P[name] = value
DictSet(d, name, value) ==
    [k \in (DOMAIN d) \cup {name} |-> IF k = name THEN value ELSE d[k]]

\* the registration that follows the three checks
register_tabular_data_P(self, Ts, Ps, properties, name) ==
    LET name2 == IF name = "None" THEN AutoName(self.n_tabular_data) ELSE name
        s1 == [self EXCEPT
                 !.tabular_data_P = DictSet(self.tabular_data_P, name2,
                                            [Ts |-> Ts, Ps |-> Ps, properties |-> properties]),
                 !.all_methods_P = self.all_methods_P \cup {name2}]
    IN  method_P_setter(s1, name2)

\* add_tabular_data_P that registers the data and leaves the selection alone
add_tabular_data_P_no_select(self, Ts, Ps, properties, name, check_properties) ==
    IF (check_properties /\ ~AllValid(properties)) \/ ~Increasing(Ts) \/ ~Increasing(Ps)
    THEN [obj |-> self, exc |-> "ValueError"]
    ELSE LET r == register_tabular_data_P(self, Ts, Ps, properties, name)
         IN  [obj |-> [r.obj EXCEPT !.method_P = self.method_P,
                                    !.TP_cached = self.TP_cached],
              exc |-> ""]

\* add_tabular_data_P that checks the axes after it has stored the data
add_tabular_data_P_stores_first(self, Ts, Ps, properties, name, check_properties) ==
    IF check_properties /\ ~AllValid(properties)
    THEN [obj |-> self, exc |-> "ValueError"]
    ELSE IF ~Increasing(Ts) \/ ~Increasing(Ps)
    THEN [obj |-> register_tabular_data_P(self, Ts, Ps, properties, name).obj,
          exc |-> "ValueError"]
    ELSE register_tabular_data_P(self, Ts, Ps, properties, name)

add_tabular_data_P(self, Ts, Ps, properties, name, check_properties) ==
    IF check_properties /\ ~AllValid(properties)
    THEN [obj |-> self, exc |-> "ValueError"]
    ELSE IF ~Increasing(Ts)
    THEN [obj |-> self, exc |-> "ValueError"]
    ELSE IF ~Increasing(Ps)
    THEN [obj |-> self, exc |-> "ValueError"]
    ELSE register_tabular_data_P(self, Ts, Ps, properties, name)

First(xs) == xs[1]
Last(xs) == xs[Len(xs)]

\* the validity test with the bounds of the data counted as inside
test_method_validity_P_closed(self, T, P, method) ==
    IF method \in TabNames(self)
    THEN IF self.tabular_extrapolation_permitted
         THEN [ret |-> TRUE, exc |-> ""]
         ELSE LET d == self.tabular_data_P[method]
              IN  [ret |-> /\ First(d.Ts) <= T /\ T <= Last(d.Ts)
                           /\ First(d.Ps) <= P /\ P <= Last(d.Ps),
                   exc |-> ""]
    ELSE IF method = NEGLECT_P
    THEN [ret |-> IF self.method # "None" THEN test_method_validity(T, self.method)
                  ELSE FALSE,
          exc |-> ""]
    ELSE IF method \in self.all_methods_P
    THEN [ret |-> T_limits[method][1] <= T /\ T <= T_limits[method][2], exc |-> ""]
    ELSE [ret |-> FALSE, exc |-> "ValueError"]

\* P may be None (valid_methods_P passes its default on): comparing it with a
\* number raises TypeError, once the temperature comparison has let it be reached
test_method_validity_P(self, T, P, method) ==
    IF method \in TabNames(self)
    THEN IF self.tabular_extrapolation_permitted
         THEN [ret |-> TRUE, exc |-> ""]
         ELSE LET d == self.tabular_data_P[method]
                  T_inside == First(d.Ts) < T /\ T < Last(d.Ts)
              IN  IF ~T_inside THEN [ret |-> FALSE, exc |-> ""]
                  ELSE IF P = NoneVal THEN [ret |-> FALSE, exc |-> "TypeError"]
                  ELSE [ret |-> First(d.Ps) < P /\ P < Last(d.Ps), exc |-> ""]
    ELSE IF method = NEGLECT_P
    THEN [ret |-> IF self.method # "None" THEN test_method_validity(T, self.method)
                  ELSE FALSE,
          exc |-> ""]
    ELSE IF method \in self.all_methods_P
    THEN [ret |-> T_limits[method][1] < T /\ T < T_limits[method][2], exc |-> ""]
    ELSE [ret |-> FALSE, exc |-> "ValueError"]

\* TP_dependent_property that returns whatever calculate_P returned
TP_dependent_property_unchecked(self, T, P, calc) ==
    IF self.method_P = "None"
    THEN IF self.RAISE_PROPERTY_CALCULATION_ERROR
         THEN [ret |-> NoneVal, exc |-> "RuntimeError"]
         ELSE [ret |-> NoneVal, exc |-> ""]
    ELSE LET v == test_method_validity_P(self, T, P, self.method_P)
         IN  IF v.exc # "" THEN [ret |-> NoneVal, exc |-> v.exc]
             ELSE IF v.ret
             THEN IF calc.raises
                  THEN IF self.RAISE_PROPERTY_CALCULATION_ERROR
                       THEN [ret |-> NoneVal, exc |-> "RuntimeError"]
                       ELSE [ret |-> NoneVal, exc |-> ""]
                  ELSE [ret |-> calc.value, exc |-> ""]
             ELSE IF self.RAISE_PROPERTY_CALCULATION_ERROR
             THEN [ret |-> NoneVal, exc |-> "RuntimeError"]
             ELSE [ret |-> NoneVal, exc |-> ""]

\* calc is what calculate_P(T, P, method_P) does if it is called
TP_dependent_property(self, T, P, calc) ==
    IF self.method_P = "None"
    THEN IF self.RAISE_PROPERTY_CALCULATION_ERROR
         THEN [ret |-> NoneVal, exc |-> "RuntimeError"]
         ELSE [ret |-> NoneVal, exc |-> ""]
    ELSE LET v == test_method_validity_P(self, T, P, self.method_P)
         IN  IF v.exc # "" THEN [ret |-> NoneVal, exc |-> v.exc]
             ELSE IF v.ret
             THEN IF calc.raises
                  THEN IF self.RAISE_PROPERTY_CALCULATION_ERROR
                       THEN [ret |-> NoneVal, exc |-> "RuntimeError"]
                       ELSE [ret |-> NoneVal, exc |-> ""]
                  ELSE IF test_property_validity(calc.value)
                       THEN [ret |-> calc.value, exc |-> ""]
                       ELSE IF self.RAISE_PROPERTY_CALCULATION_ERROR
                       THEN [ret |-> NoneVal, exc |-> "RuntimeError"]
                       ELSE [ret |-> NoneVal, exc |-> ""]
             ELSE IF self.RAISE_PROPERTY_CALCULATION_ERROR
             THEN [ret |-> NoneVal, exc |-> "RuntimeError"]
             ELSE [ret |-> NoneVal, exc |-> ""]

\* what T_dependent_property(T) of the base class does: tdep
T_dependent_property(tdep) ==
    IF tdep.raises THEN [ret |-> NoneVal, exc |-> "RuntimeError"]
    ELSE [ret |-> tdep.value, exc |-> ""]

\* the fallback taken only when no pressure was given
TP_or_T_dependent_property_no_fallback(self, T, P, calc, tdep) ==
    IF P # NoneVal THEN TP_dependent_property(self, T, P, calc)
    ELSE T_dependent_property(tdep)

TP_or_T_dependent_property(self, T, P, calc, tdep) ==
    LET r == IF P # NoneVal THEN TP_dependent_property(self, T, P, calc)
             ELSE [ret |-> NoneVal, exc |-> ""]
    IN  IF r.exc # "" THEN r
        ELSE IF P = NoneVal \/ r.ret = NoneVal THEN T_dependent_property(tdep)
        ELSE r

\* sorted_methods.remove(x); sorted_methods.insert(0, x)
MoveToFront(xs, x) == <<x>> \o SelectSeq(xs, LAMBDA y : y # x)

InSeq(x, xs) == \E i \in 1..Len(xs) : xs[i] = x

valid_methods_P(self, T, P) ==
    LET sorted_methods == SelectSeq(ranked_methods_P, LAMBDA i : i \in self.all_methods_P)
        moved == IF InSeq(self.method_P, sorted_methods)
                 THEN MoveToFront(sorted_methods, self.method_P)
                 ELSE sorted_methods
        v(i) == test_method_validity_P(self, T, P, i)
    IN  IF T = NoneVal THEN [ret |-> moved, exc |-> ""]
        ELSE IF \E k \in 1..Len(moved) : v(moved[k]).exc # ""
        THEN [ret |-> <<>>,
              exc |-> v(moved[CHOOSE k \in 1..Len(moved) :
                                 /\ v(moved[k]).exc # ""
                                 /\ \A j \in 1..(k - 1) : v(moved[j]).exc = ""]).exc]
        ELSE [ret |-> SelectSeq(moved, LAMBDA i : v(i).ret), exc |-> ""]

\* __call__: the evaluation with the one-entry cache
call(self, T, P, calc, tdep) ==
    IF <<T, P>> = self.TP_cached
    THEN [obj |-> self, ret |-> self.prop_cached, exc |-> ""]
    ELSE LET r == IF P # NoneVal THEN TP_dependent_property(self, T, P, calc)
                  ELSE T_dependent_property(tdep)
         IN  IF r.exc # "" THEN [obj |-> self, ret |-> NoneVal, exc |-> r.exc]
             ELSE [obj |-> [self EXCEPT !.prop_cached = r.ret, !.TP_cached = <<T, P>>],
                   ret |-> r.ret, exc |-> ""]

\* the first entry of ranked_methods_P that is available, or None
FirstRanked(all_methods_P) ==
    LET avail == SelectSeq(ranked_methods_P, LAMBDA i : i \in all_methods_P)
    IN  IF avail = <<>> THEN "None" ELSE avail[1]

\* for name, (Ts, Ps, properties) in kwargs['tabular_data_P'].items(): ...
RECURSIVE add_all_tabular_data_P(_, _)
add_all_tabular_data_P(self, items) ==
    IF items = <<>> THEN [obj |-> self, exc |-> ""]
    ELSE LET r == add_tabular_data_P(self, Head(items).Ts, Head(items).Ps,
                                     Head(items).properties, Head(items).name, FALSE)
         IN  IF r.exc # "" THEN r ELSE add_all_tabular_data_P(r.obj, Tail(items))

\* __init__ that selects by rank whatever tabular data it was given
TP_init_ranked_only(loaded, low, raise_errors, n_tabular, extrapolation_permitted, tabular, method_P) ==
    LET s0 == [NoTP EXCEPT
                 !.all_methods_P = loaded,
                 !.method = low,
                 !.all_methods = IF low = "None" THEN {} ELSE {low},
                 !.RAISE_PROPERTY_CALCULATION_ERROR = raise_errors,
                 !.n_tabular_data = n_tabular,
                 !.tabular_extrapolation_permitted = extrapolation_permitted]
        r1 == add_all_tabular_data_P(s0, tabular)
        chosen == IF method_P # "None" THEN method_P
                  ELSE FirstRanked(r1.obj.all_methods_P)
        r2 == method_P_setter(r1.obj, chosen)
    IN  IF r1.exc # "" THEN [obj |-> NoTP, exc |-> r1.exc]
        ELSE IF r2.exc # "" THEN [obj |-> NoTP, exc |-> r2.exc]
        ELSE [obj |-> [r2.obj EXCEPT !.constructed = TRUE], exc |-> ""]

\* __init__: loaded is the set load_all_methods of the subclass fills in, low
\* the low-pressure method the base class selects, raise_errors the class
\* attribute RAISE_PROPERTY_CALCULATION_ERROR; the others are keyword arguments
TP_init(loaded, low, raise_errors, n_tabular, extrapolation_permitted, tabular, method_P) ==
    LET s0 == [NoTP EXCEPT
                 !.all_methods_P = loaded,
                 !.method = low,
                 !.all_methods = IF low = "None" THEN {} ELSE {low},
                 !.RAISE_PROPERTY_CALCULATION_ERROR = raise_errors,
                 !.n_tabular_data = n_tabular,
                 !.tabular_extrapolation_permitted = extrapolation_permitted]
        r1 == add_all_tabular_data_P(s0, tabular)
        chosen == IF method_P # "None" THEN method_P
                  ELSE IF r1.obj.method_P # "None" THEN r1.obj.method_P
                  ELSE FirstRanked(r1.obj.all_methods_P)
        r2 == method_P_setter(r1.obj, chosen)
    IN  IF r1.exc # "" THEN [obj |-> NoTP, exc |-> r1.exc]
        ELSE IF r2.exc # "" THEN [obj |-> NoTP, exc |-> r2.exc]
        ELSE [obj |-> [r2.obj EXCEPT !.constructed = TRUE], exc |-> ""]

\* key = (name, self.interpolation_T, id(self.interpolation_P),
\*        id(self.interpolation_property), id(self.interpolation_property_inv))
interpolators_key(self, name) ==
    <<name, self.interpolation_T, self.interpolation_P.id,
      self.interpolation_property.id, self.interpolation_property_inv.id>>

\* the (extrapolator, spline) pair interp2d builds: the data and the transforms
\* it is built from, and whether there is a spline
build_interpolators(self, name) ==
    [Ts |-> self.tabular_data_P[name].Ts,
     Ps |-> self.tabular_data_P[name].Ps,
     properties |-> self.tabular_data_P[name].properties,
     interpolation_T |-> self.interpolation_T.fn,
     interpolation_P |-> self.interpolation_P.fn,
     interpolation_property |-> self.interpolation_property.fn,
     spline |-> Len(self.tabular_data_P[name].properties) >= 5]

NoPair ==
    [Ts |-> <<>>, Ps |-> <<>>, properties |-> <<>>, interpolation_T |-> "None",
     interpolation_P |-> "None", interpolation_property |-> "None", spline |-> FALSE]

\* T < Ts[0] or T > Ts[-1] or P < Ps[0] or P > Ps[-1]
OutOfRange(T, P, Ts, Ps) ==
    T < First(Ts) \/ T > Last(Ts) \/ P < First(Ps) \/ P > Last(Ps)

\* interpolate_P with the range test made after the interpolators are built
interpolate_P_builds_first(self, T, P, name) ==
    IF name \notin TabNames(self)
    THEN [obj |-> self, tool |-> "", pair |-> NoPair, exc |-> "KeyError"]
    ELSE
    LET key == interpolators_key(self, name)
        data == self.tabular_data_P[name]
        cache == self.tabular_data_interpolators_P
        cache2 == IF key \in DOMAIN cache THEN cache
                  ELSE DictSet(cache, key, build_interpolators(self, name))
        s2 == [self EXCEPT !.tabular_data_interpolators_P = cache2]
    IN  IF ~self.tabular_extrapolation_permitted /\ OutOfRange(T, P, data.Ts, data.Ps)
        THEN [obj |-> s2, tool |-> "", pair |-> NoPair, exc |-> "ValueError"]
        ELSE [obj |-> s2,
              tool |-> IF OutOfRange(T, P, data.Ts, data.Ps) \/ ~cache2[key].spline
                       THEN "extrapolator" ELSE "spline",
              pair |-> cache2[key], exc |-> ""]

\* interpolate_P that takes the spline strictly inside the bounds only
interpolate_P_strict(self, T, P, name) ==
    IF name \notin TabNames(self)
    THEN [obj |-> self, tool |-> "", pair |-> NoPair, exc |-> "KeyError"]
    ELSE
    LET key == interpolators_key(self, name)
        data == self.tabular_data_P[name]
        cache == self.tabular_data_interpolators_P
        cache2 == IF key \in DOMAIN cache THEN cache
                  ELSE DictSet(cache, key, build_interpolators(self, name))
        s2 == [self EXCEPT !.tabular_data_interpolators_P = cache2]
    IN  IF ~self.tabular_extrapolation_permitted /\ OutOfRange(T, P, data.Ts, data.Ps)
        THEN [obj |-> self, tool |-> "", pair |-> NoPair, exc |-> "ValueError"]
        ELSE [obj |-> s2,
              tool |-> IF T <= First(data.Ts) \/ T >= Last(data.Ts) \/ ~cache2[key].spline
                          \/ P <= First(data.Ps) \/ P >= Last(data.Ps)
                       THEN "extrapolator" ELSE "spline",
              pair |-> cache2[key], exc |-> ""]

\* interpolate_P: tool is the interpolator that is evaluated, pair the
\* (extrapolator, spline) pair it is taken from
interpolate_P(self, T, P, name) ==
    IF name \notin TabNames(self)
    THEN [obj |-> self, tool |-> "", pair |-> NoPair, exc |-> "KeyError"]
    ELSE
    LET key == interpolators_key(self, name)
        data == self.tabular_data_P[name]
        cache == self.tabular_data_interpolators_P
        cache2 == IF key \in DOMAIN cache THEN cache
                  ELSE DictSet(cache, key, build_interpolators(self, name))
        s2 == [self EXCEPT !.tabular_data_interpolators_P = cache2]
        tool == IF OutOfRange(T, P, data.Ts, data.Ps) \/ ~cache2[key].spline
                THEN "extrapolator" ELSE "spline"
    IN  IF ~self.tabular_extrapolation_permitted /\ OutOfRange(T, P, data.Ts, data.Ps)
        THEN [obj |-> self, tool |-> "", pair |-> NoPair, exc |-> "ValueError"]
        ELSE IF Truthy(self.interpolation_property)
                /\ ~Truthy(self.interpolation_property_inv)
        THEN [obj |-> s2, tool |-> tool, pair |-> cache2[key], exc |-> "TypeError"]
        ELSE [obj |-> s2, tool |-> tool, pair |-> cache2[key], exc |-> ""]

\* the setter of method in the base class: the method is selected; TP_cached
\* belongs to this class and is left as it is
method_setter(self, method) ==
    IF method \notin self.all_methods /\ method # "None"
    THEN [obj |-> self, exc |-> "ValueError"]
    ELSE [obj |-> [self EXCEPT !.method = method], exc |-> ""]

\* add_P_correlation that registers the name as a pressure-dependent method too
add_P_correlation_registers_P(self, name, model, args) ==
    LET s1 == [self EXCEPT
                 !.parameters = DictSet(self.parameters, <<model, name>>, args),
                 !.all_methods = self.all_methods \cup {name},
                 !.all_methods_P = self.all_methods_P \cup {name}]
        r == method_setter(s1, name)
    IN  IF r.exc # "" THEN r
        ELSE [obj |-> [r.obj EXCEPT !.P_correlations =
                                       DictSet(self.P_correlations, name, args)],
              exc |-> ""]

\* add_P_correlation(name, model, coeffs=..., N_terms=..., N_T=...); parameters
\* stands for the dictionaries <model>_parameters, args for the keyword arguments
add_P_correlation(self, name, model, args) ==
    LET s1 == [self EXCEPT
                 !.parameters = DictSet(self.parameters, <<model, name>>, args),
                 !.all_methods = self.all_methods \cup {name}]
        r == method_setter(s1, name)
    IN  IF r.exc # "" THEN r
        ELSE [obj |-> [r.obj EXCEPT !.P_correlations =
                                       DictSet(self.P_correlations, name, args)],
              exc |-> ""]

\* calculate(T, method) of a subclass, as a function of its arguments: what
\* T_dependent_property(T) evaluates once a low-pressure method is selected
CorrelationNames == {"Tait1"}
CorrelationModels == {"Tait"}
calculate(T, method) ==
    IF method = "None" THEN Returns(NoneVal)
    ELSE IF method = "LOWP" THEN Returns(1)
    ELSE Returns(2)

\* calculate_P(T, P, method) of a subclass, as a function of its arguments and
\* of the state it reads
calculate_P(self, T, P, method) ==
    IF method \in TabNames(self)
    THEN Returns(self.tabular_data_P[method].properties[1][1])
    ELSE IF method = NEGLECT_P THEN calculate(T, self.method)
    ELSE IF method = "EOS" THEN Returns(2)
    ELSE Returns(1)

\* the evaluation __call__ stands for, without the cache
uncached(self, T, P) ==
    IF P # NoneVal
    THEN TP_dependent_property(self, T, P, calculate_P(self, T, P, self.method_P))
    ELSE T_dependent_property(calculate(T, self.method))

----------------------------------------------------------------------------
(* TPDependentProperty: the calls *)

\* the axes and the property grids the calls are made with
GoodAxes == {<<1, 3>>, <<2, 3>>}
BadAxes == {<<2, 2>>, <<3, 1>>}
Axes == GoodAxes \cup BadAxes
GoodProperties == {<<<<1, 2>>, <<2, 1>>>>}
BadProperties == {<<<<1, 0>>, <<2, 1>>>>}
PropertyGrids == GoodProperties \cup BadProperties

UserNames == {"mydata"}
\* the names a caller may ask for: registered or not
MethodNames == RankedSet \cup UserNames \cup {AutoName(0), "UNKNOWN"}

NoCall ==
    [op |-> "none", T |-> NoneVal, P |-> NoneVal, method |-> "None",
     Ts |-> <<>>, Ps |-> <<>>, properties |-> <<>>, check_properties |-> FALSE,
     calc |-> Raises, tdep |-> Raises,
     ret |-> NoneVal, ret_list |-> <<>>, ret_bool |-> FALSE, exc |-> "",
     tool |-> "", pair |-> NoPair, tabular |-> <<>>, args |-> <<>>]

TpInit ==
    /\ tp = NoTP
    /\ tp_call = NoCall

Idle == tp.constructed /\ tp_call.op = "none"

\* what an object is constructed from: see TP_init
Configs(LoadedIn, LowIn, RaiseIn, PermittedIn) ==
    [loaded : LoadedIn, low : LowIn, raise_errors : RaiseIn, permitted : PermittedIn]

\* TPDependentProperty(extrapolation, **kwargs) of a subclass
TpConstruct(ConfigsIn) ==
    /\ ~tp.constructed /\ tp_call.op = "none"
    /\ \E c \in ConfigsIn :
         LET r == TP_init(c.loaded, c.low, c.raise_errors, 0, c.permitted, <<>>, "None")
         IN  /\ tp' = r.obj
             /\ tp_call' = [NoCall EXCEPT !.op = "__init__", !.exc = r.exc]
    /\ UNCHANGED <<eos_vars, wilson_vars, fn_vars>>

\* the tabular_data_P keyword: the data sets in the order of the dictionary
DataSet(name) ==
    [name |-> name, Ts |-> <<1, 3>>, Ps |-> <<1, 3>>,
     properties |-> <<<<1, 2>>, <<2, 1>>>>]
TabularArguments ==
    {<<>>, <<DataSet("mydata")>>, <<DataSet("mydata"), DataSet("other")>>,
     <<DataSet("other"), DataSet("mydata")>>}

\* TPDependentProperty(extrapolation, tabular_data_P=..., method_P=...) of a
\* subclass; method_P "None" stands for the keyword left out
TpConstructWith(ConfigsIn, TabularIn, MethodsIn) ==
    /\ ~tp.constructed /\ tp_call.op = "none"
    /\ \E c \in ConfigsIn, tabular \in TabularIn, method_P \in MethodsIn :
         LET r == TP_init(c.loaded, c.low, c.raise_errors, 0, c.permitted, tabular, method_P)
         IN  /\ tp' = r.obj
             /\ tp_call' = [NoCall EXCEPT !.op = "__init__", !.method = method_P,
                                          !.tabular = tabular, !.exc = r.exc]
    /\ UNCHANGED <<eos_vars, wilson_vars, fn_vars>>

\* obj.method_P = method_P
SetMethodP ==
    /\ Idle
    /\ \E method_P \in MethodNames \cup {"None"} :
         LET r == method_P_setter(tp, method_P)
         IN  /\ tp' = r.obj
             /\ tp_call' = [NoCall EXCEPT !.op = "method_P", !.method = method_P,
                                          !.exc = r.exc]
    /\ UNCHANGED <<eos_vars, wilson_vars, fn_vars>>

AddTabularDataP(TsIn, PsIn, PropertiesIn, NamesIn, ChecksIn) ==
    /\ Idle
    /\ \E Ts \in TsIn, Ps \in PsIn, properties \in PropertiesIn,
          name \in NamesIn, check_properties \in ChecksIn :
         LET r == add_tabular_data_P(tp, Ts, Ps, properties, name, check_properties)
         IN  /\ tp' = r.obj
             /\ tp_call' = [NoCall EXCEPT !.op = "add_tabular_data_P", !.method = name,
                                          !.Ts = Ts, !.Ps = Ps, !.properties = properties,
                                          !.check_properties = check_properties,
                                          !.exc = r.exc]
    /\ UNCHANGED <<eos_vars, wilson_vars, fn_vars>>

\* obj(T, P)
Call(TIn, PIn) ==
    /\ Idle
    /\ \E T \in TIn, P \in PIn, calc \in CalcOutcomes, tdep \in TdepOutcomes :
         LET r == call(tp, T, P, calc, tdep)
         IN  /\ tp' = r.obj
             /\ tp_call' = [NoCall EXCEPT !.op = "__call__", !.T = T, !.P = P,
                                          !.calc = calc, !.tdep = tdep,
                                          !.ret = r.ret, !.exc = r.exc]
    /\ UNCHANGED <<eos_vars, wilson_vars, fn_vars>>

TPDependentProperty ==
    /\ Idle
    /\ \E T \in Temps, P \in Press, calc \in CalcOutcomes :
         LET r == TP_dependent_property(tp, T, P, calc)
         IN  /\ tp' = tp
             /\ tp_call' = [NoCall EXCEPT !.op = "TP_dependent_property", !.T = T, !.P = P,
                                          !.calc = calc, !.ret = r.ret, !.exc = r.exc]
    /\ UNCHANGED <<eos_vars, wilson_vars, fn_vars>>

TPOrTDependentProperty ==
    /\ Idle
    /\ \E T \in Temps, P \in Press \cup {NoneVal}, calc \in CalcOutcomes, tdep \in TdepOutcomes :
         LET r == TP_or_T_dependent_property(tp, T, P, calc, tdep)
         IN  /\ tp' = tp
             /\ tp_call' = [NoCall EXCEPT !.op = "TP_or_T_dependent_property",
                                          !.T = T, !.P = P, !.calc = calc, !.tdep = tdep,
                                          !.ret = r.ret, !.exc = r.exc]
    /\ UNCHANGED <<eos_vars, wilson_vars, fn_vars>>

ValidMethodsP ==
    /\ Idle
    /\ \E T \in Temps \cup {NoneVal}, P \in Press \cup {NoneVal} :
         LET r == valid_methods_P(tp, T, P)
         IN  /\ tp' = tp
             /\ tp_call' = [NoCall EXCEPT !.op = "valid_methods_P", !.T = T, !.P = P,
                                          !.ret_list = r.ret, !.exc = r.exc]
    /\ UNCHANGED <<eos_vars, wilson_vars, fn_vars>>

TestMethodValidityP ==
    /\ Idle
    /\ \E T \in Temps, P \in Press, method \in MethodNames :
         LET r == test_method_validity_P(tp, T, P, method)
         IN  /\ tp' = tp
             /\ tp_call' = [NoCall EXCEPT !.op = "test_method_validity_P",
                                          !.T = T, !.P = P, !.method = method,
                                          !.ret_bool = r.ret, !.exc = r.exc]
    /\ UNCHANGED <<eos_vars, wilson_vars, fn_vars>>

\* obj.add_P_correlation(name, model, **kwargs)
AddPCorrelation ==
    /\ Idle
    /\ \E name \in CorrelationNames, model \in CorrelationModels, coeffs \in 1..2 :
         LET r == add_P_correlation(tp, name, model, coeffs)
         IN  /\ tp' = r.obj
             /\ tp_call' = [NoCall EXCEPT !.op = "add_P_correlation", !.method = name,
                                          !.args = <<model, coeffs>>, !.exc = r.exc]
    /\ UNCHANGED <<eos_vars, wilson_vars, fn_vars>>

\* obj(T, P), with calculate_P and calculate the functions above
CallFixed(TIn, PIn) ==
    /\ Idle
    /\ \E T \in TIn, P \in PIn :
         LET calc == calculate_P(tp, T, P, tp.method_P)
             tdep == calculate(T, tp.method)
             r == call(tp, T, P, calc, tdep)
         IN  /\ tp' = r.obj
             /\ tp_call' = [NoCall EXCEPT !.op = "__call__", !.T = T, !.P = P,
                                          !.calc = calc, !.tdep = tdep,
                                          !.ret = r.ret, !.exc = r.exc]
    /\ UNCHANGED <<eos_vars, wilson_vars, fn_vars>>

\* the grids of the interpolation: two rows of properties, and five
ShortGrid == <<<<1, 2>>, <<2, 1>>>>
LongGrid == <<<<1, 2>>, <<2, 1>>, <<1, 2>>, <<2, 1>>, <<1, 2>>>>
QueryTs == 0..4
QueryPs == {0, 1, 3, 5, 6}

\* obj.interpolate_P(T, P, name)
InterpolateP(TIn, PIn) ==
    /\ Idle
    /\ \E T \in TIn, P \in PIn, name \in UserNames :
         LET r == interpolate_P(tp, T, P, name)
         IN  /\ tp' = r.obj
             /\ tp_call' = [NoCall EXCEPT !.op = "interpolate_P", !.T = T, !.P = P,
                                          !.method = name, !.tool = r.tool,
                                          !.pair = r.pair, !.exc = r.exc]
    /\ UNCHANGED <<eos_vars, wilson_vars, fn_vars>>

\* obj.interpolation_T = f, for a function of a module or None
SetInterpolationT ==
    /\ Idle
    /\ \E f \in {NoneFn, LogFn} :
         /\ tp' = [tp EXCEPT !.interpolation_T = f]
         /\ tp_call' = [NoCall EXCEPT !.op = "interpolation_T", !.method = f.fn]
    /\ UNCHANGED <<eos_vars, wilson_vars, fn_vars>>

\* obj.interpolation_P = f, for None or a function created for the assignment:
\* it is created while the function it replaces is alive, which is then dropped
SetInterpolationP ==
    /\ Idle
    /\ \E f \in FunctionObjects \cup {NoneFn} :
         /\ f.id # tp.interpolation_P.id
         /\ tp' = [tp EXCEPT !.interpolation_P = f]
         /\ tp_call' = [NoCall EXCEPT !.op = "interpolation_P", !.method = f.fn]
    /\ UNCHANGED <<eos_vars, wilson_vars, fn_vars>>

\* obj.interpolation_property = f
SetInterpolationProperty ==
    /\ Idle
    /\ \E f \in {NoneFn, ExpFn} :
         /\ tp' = [tp EXCEPT !.interpolation_property = f]
         /\ tp_call' = [NoCall EXCEPT !.op = "interpolation_property", !.method = f.fn]
    /\ UNCHANGED <<eos_vars, wilson_vars, fn_vars>>

\* obj.interpolation_property_inv = f
SetInterpolationPropertyInv ==
    /\ Idle
    /\ \E f \in {NoneFn, LogFn} :
         /\ tp' = [tp EXCEPT !.interpolation_property_inv = f]
         /\ tp_call' = [NoCall EXCEPT !.op = "interpolation_property_inv", !.method = f.fn]
    /\ UNCHANGED <<eos_vars, wilson_vars, fn_vars>>

\* the caller has taken the result of the call
TpReturn ==
    /\ tp_call.op # "none"
    /\ tp_call' = NoCall
    /\ UNCHANGED <<tp, eos_vars, wilson_vars, fn_vars>>

----------------------------------------------------------------------------
(* Wilson: the lazily computed quantities *)

\* the inputs of an object: "regular" inputs, for which every formula
\* evaluates, and inputs with a coefficient so large that exp() in lambdas
\* raises OverflowError
InputClasses == {"regular", "overflow"}

\* a cached attribute is unset, holds the whole value, or holds the rows that
\* were filled in before an exception ended the loop
Attributes ==
    {"_lambdas", "_dlambdas_dT", "_d2lambdas_dT2", "_d2lambdas_dT2s", "_d3lambdas_dT3",
     "_d3lambdas_dT3s", "_xj_Lambda_ijs", "_xj_Lambda_ijs_inv", "_xj_dLambda_dTijs",
     "_xj_d2Lambda_dT2ijs", "_xj_d3Lambda_dT3ijs", "_GE", "_dGE_dT", "_d2GE_dT2",
     "_d3GE_dT3", "_d2GE_dTdxs", "_dGE_dxs", "_d2GE_dxixjs", "_d3GE_dxixjxks"}

\* a method: the attribute it returns if set (read), the quantities it needs
\* in the order it fetches them (via: the attribute tried before the call),
\* the attribute it stores (store), whether it stores the empty list before
\* the loop that fills it (store_first), and whether it walks over what it
\* needs without indexing it by component (iterates)
Direct(q) == [via |-> "", call |-> q]
Via(attr, q) == [via |-> attr, call |-> q]

lambdas ==
    [read |-> "_lambdas", needs |-> <<>>,
     store |-> "_lambdas", store_first |-> TRUE, iterates |-> FALSE]
dlambdas_dT ==
    [read |-> "_dlambdas_dT", needs |-> <<Via("_lambdas", "lambdas")>>,
     store |-> "_dlambdas_dT", store_first |-> TRUE, iterates |-> FALSE]
d2lambdas_dT2 ==
    [read |-> "", needs |-> <<Direct("lambdas"), Direct("dlambdas_dT")>>,
     store |-> "_d2lambdas_dT2s", store_first |-> TRUE, iterates |-> FALSE]
d3lambdas_dT3 ==
    [read |-> "_d3lambdas_dT3s", needs |-> <<Direct("lambdas"), Direct("dlambdas_dT")>>,
     store |-> "_d3lambdas_dT3s", store_first |-> TRUE, iterates |-> FALSE]
xj_Lambda_ijs ==
    [read |-> "_xj_Lambda_ijs", needs |-> <<Via("_lambdas", "lambdas")>>,
     store |-> "_xj_Lambda_ijs", store_first |-> TRUE, iterates |-> FALSE]
xj_Lambda_ijs_inv ==
    [read |-> "_xj_Lambda_ijs_inv", needs |-> <<Via("_xj_Lambda_ijs", "xj_Lambda_ijs")>>,
     store |-> "_xj_Lambda_ijs_inv", store_first |-> FALSE, iterates |-> TRUE]
xj_dLambda_dTijs ==
    [read |-> "_xj_dLambda_dTijs", needs |-> <<Via("_dlambdas_dT", "dlambdas_dT")>>,
     store |-> "_xj_dLambda_dTijs", store_first |-> TRUE, iterates |-> FALSE]
xj_d2Lambda_dT2ijs ==
    [read |-> "_xj_d2Lambda_dT2ijs", needs |-> <<Via("_d2lambdas_dT2", "d2lambdas_dT2")>>,
     store |-> "_xj_d2Lambda_dT2ijs", store_first |-> TRUE, iterates |-> FALSE]
xj_d3Lambda_dT3ijs ==
    [read |-> "_xj_d3Lambda_dT3ijs", needs |-> <<Via("_d3lambdas_dT3", "d3lambdas_dT3")>>,
     store |-> "_xj_d3Lambda_dT3ijs", store_first |-> TRUE, iterates |-> FALSE]
GE ==
    [read |-> "_GE", needs |-> <<Direct("lambdas")>>,
     store |-> "_GE", store_first |-> FALSE, iterates |-> FALSE]
dGE_dT ==
    [read |-> "_dGE_dT",
     needs |-> <<Direct("lambdas"), Direct("dlambdas_dT"), Direct("xj_Lambda_ijs"),
                 Direct("xj_dLambda_dTijs")>>,
     store |-> "_dGE_dT", store_first |-> FALSE, iterates |-> FALSE]
d2GE_dT2 ==
    [read |-> "_d2GE_dT2",
     needs |-> <<Direct("lambdas"), Direct("dlambdas_dT"), Direct("d2lambdas_dT2"),
                 Direct("xj_Lambda_ijs"), Direct("xj_dLambda_dTijs"),
                 Direct("xj_d2Lambda_dT2ijs")>>,
     store |-> "_d2GE_dT2", store_first |-> FALSE, iterates |-> FALSE]
d3GE_dT3 ==
    [read |-> "_d3GE_dT3",
     needs |-> <<Direct("lambdas"), Direct("dlambdas_dT"), Direct("d2lambdas_dT2"),
                 Direct("d3lambdas_dT3"), Direct("xj_Lambda_ijs"),
                 Direct("xj_dLambda_dTijs"), Direct("xj_d2Lambda_dT2ijs"),
                 Direct("xj_d3Lambda_dT3ijs")>>,
     store |-> "_d3GE_dT3", store_first |-> FALSE, iterates |-> FALSE]
d2GE_dTdxs ==
    [read |-> "_d2GE_dTdxs",
     needs |-> <<Direct("lambdas"), Direct("dlambdas_dT"), Direct("d2lambdas_dT2"),
                 Direct("xj_Lambda_ijs"), Direct("xj_dLambda_dTijs")>>,
     store |-> "_d2GE_dTdxs", store_first |-> TRUE, iterates |-> FALSE]
dGE_dxs ==
    [read |-> "_dGE_dxs", needs |-> <<Direct("lambdas"), Direct("xj_Lambda_ijs")>>,
     store |-> "_dGE_dxs", store_first |-> TRUE, iterates |-> FALSE]
d2GE_dxixjs ==
    [read |-> "_d2GE_dxixjs", needs |-> <<Direct("lambdas"), Direct("xj_Lambda_ijs")>>,
     store |-> "_d2GE_dxixjs", store_first |-> TRUE, iterates |-> FALSE]
d3GE_dxixjxks ==
    [read |-> "_d3GE_dxixjxks", needs |-> <<Direct("lambdas"), Direct("xj_Lambda_ijs")>>,
     store |-> "_d3GE_dxixjxks", store_first |-> TRUE, iterates |-> FALSE]
gammas ==
    [read |-> "",
     needs |-> <<Via("_lambdas", "lambdas"), Via("_xj_Lambda_ijs_inv", "xj_Lambda_ijs_inv")>>,
     store |-> "", store_first |-> FALSE, iterates |-> FALSE]

Quantities ==
    {"lambdas", "dlambdas_dT", "d2lambdas_dT2", "d3lambdas_dT3", "xj_Lambda_ijs",
     "xj_Lambda_ijs_inv", "xj_dLambda_dTijs", "xj_d2Lambda_dT2ijs", "xj_d3Lambda_dT3ijs",
     "GE", "dGE_dT", "d2GE_dT2", "d3GE_dT3", "d2GE_dTdxs", "dGE_dxs", "d2GE_dxixjs",
     "d3GE_dxixjxks", "gammas"}

Method(q) ==
    CASE q = "lambdas" -> lambdas
      [] q = "dlambdas_dT" -> dlambdas_dT
      [] q = "d2lambdas_dT2" -> d2lambdas_dT2
      [] q = "d3lambdas_dT3" -> d3lambdas_dT3
      [] q = "xj_Lambda_ijs" -> xj_Lambda_ijs
      [] q = "xj_Lambda_ijs_inv" -> xj_Lambda_ijs_inv
      [] q = "xj_dLambda_dTijs" -> xj_dLambda_dTijs
      [] q = "xj_d2Lambda_dT2ijs" -> xj_d2Lambda_dT2ijs
      [] q = "xj_d3Lambda_dT3ijs" -> xj_d3Lambda_dT3ijs
      [] q = "GE" -> GE
      [] q = "dGE_dT" -> dGE_dT
      [] q = "d2GE_dT2" -> d2GE_dT2
      [] q = "d3GE_dT3" -> d3GE_dT3
      [] q = "d2GE_dTdxs" -> d2GE_dTdxs
      [] q = "dGE_dxs" -> dGE_dxs
      [] q = "d2GE_dxixjs" -> d2GE_dxixjs
      [] q = "d3GE_dxixjxks" -> d3GE_dxixjxks
      [] q = "gammas" -> gammas

\* Wilson(T, xs, ABCDEF=...): nothing is computed by the constructor
Wilson_init(inputs) ==
    [constructed |-> TRUE, inputs |-> inputs,
     attrs |-> [a \in Attributes |-> "unset"],
     computed |-> {}, recomputed |-> {}]

NoWilson ==
    [constructed |-> FALSE, inputs |-> "regular",
     attrs |-> [a \in Attributes |-> "unset"],
     computed |-> {}, recomputed |-> {}]

\* the body of method q starts: computed holds the quantities whose body has
\* run, recomputed those whose body has run again
BodyRuns(self, q) ==
    [self EXCEPT !.computed = self.computed \cup {q},
                 !.recomputed = IF q \in self.computed
                                THEN self.recomputed \cup {q} ELSE self.recomputed]

SetAttr(self, attr, value) ==
    IF attr = "" THEN self ELSE [self EXCEPT !.attrs[attr] = value]

\* a call of method q on self: the object after it, and the value it returns
\* ("full", or "partial" for a list cut short) or the exception it raises
RECURSIVE Evaluate(_, _)
RECURSIVE Fetch(_, _, _)
\* the quantities in needs[k..] are fetched one after the other; partial tells
\* whether one of the values fetched so far is a list cut short
Fetch(self, needs, partial) ==
    IF needs = <<>> THEN [obj |-> self, partial |-> partial, exc |-> ""]
    ELSE LET n == Head(needs)
         IN  IF n.via # "" /\ self.attrs[n.via] # "unset"
             THEN Fetch(self, Tail(needs), partial \/ self.attrs[n.via] = "partial")
             ELSE LET r == Evaluate(self, n.call)
                  IN  IF r.exc # "" THEN [obj |-> r.obj, partial |-> partial, exc |-> r.exc]
                      ELSE Fetch(r.obj, Tail(needs), partial \/ r.ret = "partial")

Evaluate(self, q) ==
    LET mth == Method(q)
    IN  IF mth.read # "" /\ self.attrs[mth.read] # "unset"
        THEN [obj |-> self, ret |-> self.attrs[mth.read], exc |-> ""]
        ELSE LET f == Fetch(BodyRuns(self, q), mth.needs, FALSE)
                 first == IF mth.store_first
                          THEN SetAttr(f.obj, mth.store, "partial") ELSE f.obj
             IN  IF f.exc # "" THEN [obj |-> f.obj, ret |-> "", exc |-> f.exc]
                 ELSE IF q = "lambdas" /\ self.inputs = "overflow"
                 THEN [obj |-> first, ret |-> "", exc |-> "OverflowError"]
                 ELSE IF f.partial /\ ~mth.iterates
                 THEN [obj |-> first, ret |-> "", exc |-> "IndexError"]
                 ELSE IF f.partial
                 THEN [obj |-> SetAttr(f.obj, mth.store, "partial"),
                       ret |-> "partial", exc |-> ""]
                 ELSE [obj |-> SetAttr(f.obj, mth.store, "full"), ret |-> "full", exc |-> ""]

----------------------------------------------------------------------------
(* Wilson: the calls *)

NoWilsonCall == [op |-> "none", ret |-> "", exc |-> ""]

WilsonInit ==
    /\ wilson = NoWilson
    /\ wilson_call = NoWilsonCall

\* Wilson(T=..., xs=..., ABCDEF=...)
WilsonConstruct(InputsIn) ==
    /\ ~wilson.constructed /\ wilson_call.op = "none"
    /\ \E inputs \in InputsIn :
         /\ wilson' = Wilson_init(inputs)
         /\ wilson_call' = [NoWilsonCall EXCEPT !.op = "__init__"]
    /\ UNCHANGED <<eos_vars, tp_vars, fn_vars>>

\* obj.q(), for one of the methods
WilsonCall(QuantitiesIn) ==
    /\ wilson.constructed /\ wilson_call.op = "none"
    /\ \E q \in QuantitiesIn :
         LET r == Evaluate(wilson, q)
         IN  /\ wilson' = r.obj
             /\ wilson_call' = [op |-> q, ret |-> r.ret, exc |-> r.exc]
    /\ UNCHANGED <<eos_vars, tp_vars, fn_vars>>

\* the caller has taken the result of the call
WilsonReturn ==
    /\ wilson_call.op # "none"
    /\ wilson_call' = NoWilsonCall
    /\ UNCHANGED <<wilson, eos_vars, tp_vars, fn_vars>>

----------------------------------------------------------------------------
(* Functions that keep no state between calls *)

NoFnCall == [op |-> "none", args |-> <<>>, ret |-> <<>>, exc |-> ""]

FnInit == fn_call = NoFnCall

\* the caller has taken the result of the call
FnReturn ==
    /\ fn_call.op # "none"
    /\ fn_call' = NoFnCall
    /\ UNCHANGED <<eos_vars, tp_vars, wilson_vars>>

\* the sum and the product of f over the indices in S
RECURSIVE SumOver(_, _)
SumOver(f, S) ==
    IF S = {} THEN 0
    ELSE LET i == CHOOSE i \in S : TRUE IN f[i] + SumOver(f, S \ {i})
RECURSIVE ProductOver(_, _)
ProductOver(f, S) ==
    IF S = {} THEN 1
    ELSE LET i == CHOOSE i \in S : TRUE IN f[i] * ProductOver(f, S \ {i})

----------------------------------------------------------------------------
(* Wilson: the composition derivatives of GE, in exact arithmetic *)

\* self.cmps for a ternary mixture
cmps == 1..3
\* the entries of the matrix lambdas() returns: positive, in general
\* lambdas[i][j] # lambdas[j][i]
LambdaValues == {1, 2}
LambdaMatrices == [cmps -> [cmps -> LambdaValues]]
\* the mole numbers the composition xs is proportional to: not all of them 0
MoleNumbers == {0, 1}
Compositions == {xs \in [cmps -> MoleNumbers] : \E i \in cmps : xs[i] # 0}

\* xj_Lambda_ijs()[i] = sum_j xs[j]*lambdas[i][j]
xj_Lambda_ijs_values(xs, lam) ==
    [i \in cmps |-> SumOver([j \in cmps |-> xs[j] * lam[i][j]], cmps)]

\* the common denominator of the quotients by xj_Lambda_ijs[i]: their product
CommonDenominator(xs, lam) == ProductOver(xj_Lambda_ijs_values(xs, lam), cmps)

\* 1/xj_Lambda_ijs[i], in units of 1/CommonDenominator
xj_Lambda_ijs_inv_values(xs, lam) ==
    [i \in cmps |-> ProductOver(xj_Lambda_ijs_values(xs, lam), cmps \ {i})]

\* d2GE_dxixjs with its last subtraction left out
d2GE_dxixjs_values_one_sided(T, xs, lam) ==
    LET inv == xj_Lambda_ijs_inv_values(xs, lam)
        D == CommonDenominator(xs, lam)
        tot(k, m) ==
            SumOver([i \in cmps |-> xs[i] * lam[i][k] * lam[i][m] * inv[i] * inv[i]], cmps)
            - lam[k][m] * inv[k] * D
    IN  [k \in cmps |-> [m \in cmps |-> T * tot(k, m)]]

\* d2GE_dxixjs()[k][m], in units of R/CommonDenominator^2
d2GE_dxixjs_values(T, xs, lam) ==
    LET inv == xj_Lambda_ijs_inv_values(xs, lam)
        D == CommonDenominator(xs, lam)
        tot(k, m) ==
            SumOver([i \in cmps |-> xs[i] * lam[i][k] * lam[i][m] * inv[i] * inv[i]], cmps)
            - lam[k][m] * inv[k] * D
            - lam[m][k] * inv[m] * D
    IN  [k \in cmps |-> [m \in cmps |-> T * tot(k, m)]]

\* d3GE_dxixjxks()[k][m][n], in units of R/CommonDenominator^3
d3GE_dxixjxks_values(T, xs, lam) ==
    LET inv == xj_Lambda_ijs_inv_values(xs, lam)
        D == CommonDenominator(xs, lam)
        tot(k, m, n) ==
            SumOver([i \in cmps |->
                       2 * xs[i] * lam[i][k] * lam[i][m] * lam[i][n]
                         * inv[i] * inv[i] * inv[i]], cmps)
            - lam[k][m] * lam[k][n] * inv[k] * inv[k] * D
            - lam[m][k] * lam[m][n] * inv[m] * inv[m] * D
            - lam[n][m] * lam[n][k] * inv[n] * inv[n] * D
    IN  [k \in cmps |-> [m \in cmps |-> [n \in cmps |-> (0 - T) * tot(k, m, n)]]]

\* GE = Wilson(T, xs, ...), whose lambdas() is lam; then GE.d2GE_dxixjs() and
\* GE.d3GE_dxixjxks()
WilsonTensors ==
    /\ fn_call.op = "none"
    /\ \E T \in 1..MaxTP, xs \in Compositions, lam \in LambdaMatrices :
         fn_call' = [op |-> "Wilson",
                     args |-> [T |-> T, xs |-> xs, lambdas |-> lam],
                     ret |-> [d2GE_dxixjs |-> d2GE_dxixjs_values(T, xs, lam),
                              d3GE_dxixjxks |-> d3GE_dxixjxks_values(T, xs, lam)],
                     exc |-> ""]
    /\ UNCHANGED <<eos_vars, tp_vars, wilson_vars>>

----------------------------------------------------------------------------
(* Joback: the estimates of a matched fragment set *)

\* three of the tabulated functional groups
JobackGroups == {"-CH3", "=CH- (ring)", "-NO2"}
\* the columns of the contribution table the model follows
JobackColumns == {"Tb", "Tc", "mua", "mub"}
\* the properties estimate() reports
JobackProperties == {"Tb", "Tc", "mul_coeffs"}
\* how often a group may be matched in the molecule
GroupCounts == {0, 1, 2}
\* MolecularFragmentCount: the matches of every group of the catalog
FragmentCounts == [JobackGroups -> GroupCounts]
\* the tabulated contributions (symbolic: the published numbers are reference data)
joback_groups ==
    [g \in JobackGroups |->
       [c \in JobackColumns |->
          (CASE g = "-CH3" -> 1 [] g = "=CH- (ring)" -> 2 [] OTHER -> 3)
          + (CASE c = "Tb" -> 10 [] c = "Tc" -> 20 [] c = "mua" -> 30 [] OTHER -> 40)]]
\* the entries the table may lack
MissingEntries ==
    {m \in SUBSET (JobackGroups \X JobackColumns) : Cardinality(m) <= 2}
\* the table with the entries in missing left out (None)
JobackTable(missing) ==
    [g \in JobackGroups |->
       [c \in JobackColumns |->
          IF <<g, c>> \in missing THEN NoneVal ELSE joback_groups[g][c]]]

\* the groups matched at least once: the keys of counts
MatchedGroups(counts) == {g \in JobackGroups : counts[g] > 0}

\* the sum of count * contribution over the matched groups; adding None raises
JobackSum(column, counts, table) ==
    IF \E g \in MatchedGroups(counts) : table[g][column] = NoneVal
    THEN [val |-> 0, exc |-> "TypeError"]
    ELSE [val |-> SumOver([g \in JobackGroups |-> counts[g] * table[g][column]],
                          MatchedGroups(counts)),
          exc |-> ""]

\* Tb = 198.2 + sum, in tenths of a kelvin
Joback_Tb(counts, table) ==
    LET s == JobackSum("Tb", counts, table)
    IN  IF s.exc # "" THEN [val |-> <<>>, exc |-> s.exc]
        ELSE [val |-> <<1982 + 10 * s.val>>, exc |-> ""]

\* Tc = Tb/(0.584 + 0.965*sum - sum^2) with the estimated Tb: kept as the pair
\* of Tb and the sum
Joback_Tc(counts, table) ==
    LET Tb == Joback_Tb(counts, table)
        s == JobackSum("Tc", counts, table)
    IN  IF Tb.exc # "" THEN [val |-> <<>>, exc |-> Tb.exc]
        ELSE IF s.exc # "" THEN [val |-> <<>>, exc |-> s.exc]
        ELSE [val |-> <<Tb.val[1], s.val>>, exc |-> ""]

\* the two coefficients of the liquid-viscosity correlation
Joback_mul_coeffs(counts, table) ==
    LET a == JobackSum("mua", counts, table)
        b == JobackSum("mub", counts, table)
    IN  IF a.exc # "" THEN [val |-> <<>>, exc |-> a.exc]
        ELSE IF b.exc # "" THEN [val |-> <<>>, exc |-> b.exc]
        ELSE [val |-> <<a.val, b.val>>, exc |-> ""]

\* the formula of one property
JobackFormula(property, counts, table) ==
    CASE property = "Tb" -> Joback_Tb(counts, table)
      [] property = "Tc" -> Joback_Tc(counts, table)
      [] OTHER -> Joback_mul_coeffs(counts, table)

\* estimate() that lets the error of an incomplete sum through
Joback_estimate_propagating(counts, table) ==
    IF MatchedGroups(counts) = {}
    THEN [ret |-> <<>>, exc |-> "ValueError"]
    ELSE IF \E p \in JobackProperties : JobackFormula(p, counts, table).exc # ""
    THEN [ret |-> <<>>, exc |-> "TypeError"]
    ELSE [ret |-> [p \in JobackProperties |-> JobackFormula(p, counts, table).val],
          exc |-> ""]

\* Joback(mol).estimate(): ValueError without a matched group; otherwise every
\* property, None (the empty tuple) where its sums are incomplete
Joback_estimate(counts, table) ==
    IF MatchedGroups(counts) = {}
    THEN [ret |-> <<>>, exc |-> "ValueError"]
    ELSE [ret |-> [p \in JobackProperties |->
                     LET r == JobackFormula(p, counts, table)
                     IN  IF r.exc # "" THEN <<>> ELSE r.val],
          exc |-> ""]

\* obj = Joback(mol); obj.estimate()
JobackEstimate ==
    /\ fn_call.op = "none"
    /\ \E counts \in FragmentCounts, missing \in MissingEntries :
         LET r == Joback_estimate(counts, JobackTable(missing))
         IN  fn_call' = [op |-> "Joback.estimate",
                         args |-> [counts |-> counts, missing |-> missing],
                         ret |-> r.ret, exc |-> r.exc]
    /\ UNCHANGED <<eos_vars, tp_vars, wilson_vars>>

----------------------------------------------------------------------------
(* The quadratic mixing rule: value kernel and derivative kernel *)

\* the components of the mixture: range(len(a_alphas))
MixComponents == 1..3
\* the square roots of the pure-component a_alpha terms
RootValues == {1, 2}
\* the compositions zs, in parts of a common total
MixPartValues == {0, 1, 2}
\* the binary interaction parameters
KijValues == {0 - 1, 0}
\* kijs: symmetric, with a zero diagonal
KijMatrices ==
    {k \in [MixComponents -> [MixComponents -> KijValues]] :
        \A i, j \in MixComponents : k[i][j] = k[j][i] /\ k[i][i] = 0}
\* the first and second temperature derivatives of the square roots
RootDerivatives ==
    {[dT |-> [i \in MixComponents |-> 0 - 1], dT2 |-> [i \in MixComponents |-> 1]],
     [dT |-> [i \in MixComponents |-> 0 - i], dT2 |-> [i \in MixComponents |-> i - 1]]}

\* a_alpha_ij = sqrt(a_alpha_i * a_alpha_j) * (1 - kij), the root of the product
\* being the product of the roots
a_alpha_ij(a_alpha_roots, kijs, i, j) ==
    a_alpha_roots[i] * a_alpha_roots[j] * (1 - kijs[i][j])

\* a_alpha_quadratic_terms(a_alphas, a_alpha_roots, T, zs, kijs): the row sums
\* and the mixture a_alpha from the row sums; the lists are left as given
a_alpha_quadratic_terms(a_alphas, a_alpha_roots, T, zs, kijs) ==
    LET a_alpha_j_rows ==
            [i \in MixComponents |->
               SumOver([j \in MixComponents |->
                          zs[j] * a_alpha_ij(a_alpha_roots, kijs, i, j)],
                       MixComponents)]
        a_alpha == SumOver([i \in MixComponents |-> zs[i] * a_alpha_j_rows[i]],
                           MixComponents)
    IN  [a_alpha |-> a_alpha, a_alpha_j_rows |-> a_alpha_j_rows,
         lists |-> [a_alphas |-> a_alphas, a_alpha_roots |-> a_alpha_roots,
                    zs |-> zs, kijs |-> kijs]]

\* d sqrt(a_i a_j)/dT = (a_i' a_j + a_i a_j') / (2 sqrt(a_i a_j))
dsqrt_dT(a_alphas, a_alpha_roots, da_alpha_dTs, i, j) ==
    (da_alpha_dTs[i] * a_alphas[j] + a_alphas[i] * da_alpha_dTs[j])
        \div (2 * a_alpha_roots[i] * a_alpha_roots[j])

\* d2 sqrt(x)/dT2 = (2 x x'' - x'^2) / (4 x^(3/2)) with x = a_i a_j
d2sqrt_dT2(a_alphas, a_alpha_roots, da_alpha_dTs, d2a_alpha_dT2s, i, j) ==
    LET x == a_alphas[i] * a_alphas[j]
        x1 == da_alpha_dTs[i] * a_alphas[j] + a_alphas[i] * da_alpha_dTs[j]
        x2 == d2a_alpha_dT2s[i] * a_alphas[j] + 2 * da_alpha_dTs[i] * da_alpha_dTs[j]
                + a_alphas[i] * d2a_alpha_dT2s[j]
        root == a_alpha_roots[i] * a_alpha_roots[j]
    IN  (2 * x * x2 - x1 * x1) \div (4 * root * root * root)

\* the sum over the pairs j <= i of the pair term, one row at a time: a pair
\* below the diagonal is visited once and adds to row i and to row j
PairRows(zs, term) ==
    [i \in MixComponents |->
       SumOver([j \in MixComponents |->
                  IF j < i THEN zs[j] * term[i][j]
                  ELSE IF j > i THEN zs[j] * term[j][i]
                  ELSE zs[i] * term[i][i]],
               MixComponents)]

\* the mixture sum that counts a pair below the diagonal once
PairTotalOnce(zs, term) ==
    SumOver([i \in MixComponents |->
               SumOver([j \in MixComponents |->
                          IF j < i THEN zs[i] * zs[j] * term[i][j]
                          ELSE IF j = i THEN zs[i] * zs[i] * term[i][i]
                          ELSE 0],
                       MixComponents)],
            MixComponents)

\* the mixture sum over the pairs j <= i: a pair below the diagonal counts twice
PairTotal(zs, term) ==
    SumOver([i \in MixComponents |->
               SumOver([j \in MixComponents |->
                          IF j < i THEN 2 * zs[i] * zs[j] * term[i][j]
                          ELSE IF j = i THEN zs[i] * zs[i] * term[i][i]
                          ELSE 0],
                       MixComponents)],
            MixComponents)

\* a_alpha_and_derivatives_quadratic_terms(a_alphas, a_alpha_roots, da_alpha_dTs,
\* d2a_alpha_dT2s, T, zs, kijs): the value and the two derivatives accumulated
\* pair by pair; the lists are left as given
a_alpha_and_derivatives_quadratic_terms(a_alphas, a_alpha_roots, da_alpha_dTs, d2a_alpha_dT2s, T, zs, kijs) ==
    LET a_alpha_ijs ==
            [i \in MixComponents |-> [j \in MixComponents |->
               a_alpha_ij(a_alpha_roots, kijs, i, j)]]
        da_alpha_dT_ijs ==
            [i \in MixComponents |-> [j \in MixComponents |->
               (1 - kijs[i][j])
                 * dsqrt_dT(a_alphas, a_alpha_roots, da_alpha_dTs, i, j)]]
        d2a_alpha_dT2_ijs ==
            [i \in MixComponents |-> [j \in MixComponents |->
               (1 - kijs[i][j])
                 * d2sqrt_dT2(a_alphas, a_alpha_roots, da_alpha_dTs,
                              d2a_alpha_dT2s, i, j)]]
    IN  [a_alpha |-> PairTotal(zs, a_alpha_ijs),
         da_alpha_dT |-> PairTotal(zs, da_alpha_dT_ijs),
         d2a_alpha_dT2 |-> PairTotal(zs, d2a_alpha_dT2_ijs),
         a_alpha_j_rows |-> PairRows(zs, a_alpha_ijs),
         da_alpha_dT_j_rows |-> PairRows(zs, da_alpha_dT_ijs),
         lists |-> [a_alphas |-> a_alphas, a_alpha_roots |-> a_alpha_roots,
                    zs |-> zs, kijs |-> kijs]]

\* both kernels called with the same lists
QuadraticTerms ==
    /\ fn_call.op = "none"
    /\ \E T \in 1..MaxTP, roots \in [MixComponents -> RootValues],
          zs \in [MixComponents -> MixPartValues], kijs \in KijMatrices,
          d \in RootDerivatives :
         LET a_alphas == [i \in MixComponents |-> roots[i] * roots[i]]
             da_alpha_dTs == [i \in MixComponents |-> 2 * roots[i] * d.dT[i]]
             d2a_alpha_dT2s ==
                 [i \in MixComponents |->
                    2 * (d.dT[i] * d.dT[i] + roots[i] * d.dT2[i])]
         IN  fn_call' =
               [op |-> "quadratic_terms",
                args |-> [a_alphas |-> a_alphas, a_alpha_roots |-> roots,
                          da_alpha_dTs |-> da_alpha_dTs,
                          d2a_alpha_dT2s |-> d2a_alpha_dT2s,
                          T |-> T, zs |-> zs, kijs |-> kijs],
                ret |-> [value |-> a_alpha_quadratic_terms(
                                     a_alphas, roots, T, zs, kijs),
                         derivatives |-> a_alpha_and_derivatives_quadratic_terms(
                                     a_alphas, roots, da_alpha_dTs,
                                     d2a_alpha_dT2s, T, zs, kijs)],
                exc |-> ""]
    /\ UNCHANGED <<eos_vars, tp_vars, wilson_vars>>

----------------------------------------------------------------------------
(* The specifications *)

Init == EosInit /\ TpInit /\ WilsonInit /\ FnInit

SpecEOS == Init /\ [][EosNext]_vars

\* registration: selecting methods and adding data, with the cache in use
TPRegNext ==
    \/ TpConstruct(Configs({{}, RankedSet}, {"LOWP"}, {FALSE}, BOOLEAN))
    \/ SetMethodP
    \/ AddTabularDataP({<<1, 3>>} \cup BadAxes, {<<1, 3>>} \cup BadAxes, PropertyGrids,
                       UserNames \cup {"None"}, BOOLEAN)
    \/ Call({2}, {2, NoneVal})
    \/ TpReturn

SpecTPReg == Init /\ [][TPRegNext]_vars

\* evaluation and validity of the selected method
TPReadNext ==
    \/ TpConstruct(Configs(SUBSET RankedSet, LowMethods, BOOLEAN, BOOLEAN))
    \/ SetMethodP
    \/ AddTabularDataP(GoodAxes, GoodAxes, GoodProperties, UserNames, {TRUE})
    \/ TPDependentProperty
    \/ TPOrTDependentProperty
    \/ ValidMethodsP
    \/ TestMethodValidityP
    \/ TpReturn

SpecTPRead == Init /\ [][TPReadNext]_vars

\* the cache of __call__ against the evaluation it stands for
TPCacheNext ==
    \/ TpConstruct(Configs({RankedSet}, LowMethods, BOOLEAN, {TRUE}))
    \/ SetMethodP
    \/ AddTabularDataP(GoodAxes, {<<1, 3>>}, PropertyGrids, UserNames, {FALSE})
    \/ AddPCorrelation
    \/ CallFixed({2, 3}, {2, NoneVal})
    \/ TpReturn

SpecTPCache == Init /\ [][TPCacheNext]_vars

\* interpolation over a short and a long grid, inside and outside its range
TPInterpNext ==
    \/ TpConstruct(Configs({{}}, {"LOWP"}, {FALSE}, BOOLEAN))
    \/ AddTabularDataP({<<1, 3>>}, {<<1, 5>>}, {ShortGrid}, UserNames, {TRUE})
    \/ AddTabularDataP({<<1, 3>>}, {<<1, 2, 3, 4, 5>>}, {LongGrid}, UserNames, {TRUE})
    \/ SetInterpolationProperty
    \/ SetInterpolationPropertyInv
    \/ InterpolateP(QueryTs, QueryPs)
    \/ TpReturn

SpecTPInterp == Init /\ [][TPInterpNext]_vars

\* interpolation while the transforms of T and P are replaced
TPKeysNext ==
    \/ TpConstruct(Configs({{}}, {"LOWP"}, {FALSE}, {TRUE}))
    \/ AddTabularDataP({<<1, 3>>}, {<<1, 2, 3, 4, 5>>}, {LongGrid}, UserNames, {TRUE})
    \/ SetInterpolationT
    \/ SetInterpolationP
    \/ InterpolateP({2}, {3})
    \/ TpReturn

SpecTPKeys == Init /\ [][TPKeysNext]_vars

\* construction with and without tabular data and method_P
TPInitNext ==
    \/ TpConstructWith(Configs(SUBSET RankedSet, LowMethods, {FALSE}, BOOLEAN),
                       TabularArguments, {"None", "EOS", "mydata", "UNKNOWN"})
    \/ ValidMethodsP
    \/ TpReturn

SpecTPInit == Init /\ [][TPInitNext]_vars

\* an object with regular inputs, its methods called in any order
WilsonNext ==
    \/ WilsonConstruct({"regular"})
    \/ WilsonCall(Quantities)
    \/ WilsonReturn

SpecWilson == Init /\ [][WilsonNext]_vars

\* an object whose lambdas cannot be computed, too
WilsonFaultsNext ==
    \/ WilsonConstruct(InputClasses)
    \/ WilsonCall({"lambdas", "dlambdas_dT", "xj_Lambda_ijs", "xj_Lambda_ijs_inv",
                   "GE", "dGE_dxs", "gammas"})
    \/ WilsonReturn

SpecWilsonFaults == Init /\ [][WilsonFaultsNext]_vars

\* the registry: construction, data sets, correlations and selections, each
\* of them succeeding or raising
TPRegistryNext ==
    \/ TpConstructWith(Configs({{}, RankedSet}, LowMethods, {FALSE}, {TRUE}),
                       {<<>>, <<DataSet("other")>>}, {"None", "EOS", "UNKNOWN"})
    \/ SetMethodP
    \/ AddTabularDataP({<<1, 3>>} \cup BadAxes, {<<1, 3>>}, PropertyGrids,
                       UserNames \cup {"None"}, BOOLEAN)
    \/ AddPCorrelation
    \/ TpReturn

SpecTPRegistry == Init /\ [][TPRegistryNext]_vars

\* the module's examples: one state constructed from T and V, then from the
\* T and P, and from the P and V, it holds
EosRoundTripNext ==
    \/ Construct
    \/ ReconstructFromTP
    \/ ReconstructFromPV
    \/ EosRelease

SpecEOSRoundTrip == Init /\ [][EosRoundTripNext]_vars

\* the composition derivatives of Wilson for every composition and matrix
WilsonTensorsNext ==
    \/ WilsonTensors
    \/ FnReturn

SpecWilsonTensors == Init /\ [][WilsonTensorsNext]_vars

\* the Joback estimates of every fragment count over every table
JobackNext ==
    \/ JobackEstimate
    \/ FnReturn

SpecJoback == Init /\ [][JobackNext]_vars

\* the two kernels of the quadratic mixing rule on the same inputs
QuadraticTermsNext ==
    \/ QuadraticTerms
    \/ FnReturn

SpecQuadraticTerms == Init /\ [][QuadraticTermsNext]_vars

----------------------------------------------------------------------------
(* Claims about the equation of state (checked under SpecEOS) *)

\* the roots set_from_PT was handed by the last call
CallRoots ==
    IF eos_call.op = "PR" /\ eos_call.V # NoneVal
    THEN <<VRoot(eos_call.V), OneJ, OneJ>>
    ELSE eos_call.Vs

\* the last call reached set_from_PT with roots that came from outside
\* (a direct call, or the roots all_V returned for a supplied T and P)
RootsFromPT ==
    \/ eos_call.op = "set_from_PT"
    \/ /\ eos_call.op = "PR"
       /\ eos_call.V = NoneVal /\ eos_call.T # NoneVal /\ eos_call.P # NoneVal

SuppliedCount ==
    Cardinality({k \in {"T", "P", "V"} : eos_call[k] # NoneVal})

\* the roots of the last call whose imaginary part is within the tolerance
Physical == {i \in 1..3 : abs(CallRoots[i].im) <= IMAG_TOL}

StoredT == Given(eos_call.T)
StoredP == Given(eos_call.P)

\* C1: PR(Tc, Pc, omega, T, P, V) with anything but exactly two of T, P, V
\* fails with the error 'Either T and P, or T and V, or P and V are required'
\* and produces no EOS state.
C1_WrongArgCountRejected ==
    (eos_call.op = "PR" /\ SuppliedCount # 2) =>
        /\ eos_call.exc = "Either T and P, or T and V, or P and V are required"
        /\ ~eos.constructed

\* C2: with exactly two roots above the imaginary tolerance, set_from_PT
\* succeeds, takes the remaining root as the volume, and stores it and its
\* bundle under exactly the phase PIP gives it, with nothing for the other.
C2_SingleRootStoredUnderItsPhase ==
    (RootsFromPT /\ i_roots(CallRoots) = 2) =>
        /\ eos_call.exc = ""
        /\ \E i \in Physical :
             LET V == CallRoots[i]
                 B == <<Bundle(StoredT, StoredP, V, eos_call.pip)>>
             IN  IF derivs_phase(V, eos_call.pip) = "l"
                 THEN /\ eos.phase = "l" /\ eos.Vl = <<V>> /\ eos.bundle_l = B
                      /\ eos.Vg = <<>> /\ eos.bundle_g = <<>>
                 ELSE /\ eos.phase = "g" /\ eos.Vg = <<V>> /\ eos.bundle_g = B
                      /\ eos.Vl = <<>> /\ eos.bundle_l = <<>>

\* C3: with exactly one root above the imaginary tolerance, Vl is the smaller
\* and Vg the larger of the two remaining roots, and both bundles exist: the
\* _l attributes computed from Vl, the _g attributes computed from Vg.
C3_TwoRootsBothBundles ==
    (RootsFromPT /\ i_roots(CallRoots) = 1) =>
        /\ eos_call.exc = ""
        /\ \E i \in Physical, j \in Physical :
             /\ i # j
             /\ CallRoots[i].re <= CallRoots[j].re
             /\ eos.Vl = <<CallRoots[i]>>
             /\ eos.Vg = <<CallRoots[j]>>
             /\ eos.bundle_l = <<Bundle(StoredT, StoredP, CallRoots[i], eos_call.pip)>>
             /\ eos.bundle_g = <<Bundle(StoredT, StoredP, CallRoots[j], eos_call.pip)>>

\* C4: with no root above the imaginary tolerance, set_from_PT raises
\* 'Three roots not possible' and has stored no Vl, Vg, phase or bundle.
C4_ThreeRealRootsRaise ==
    (RootsFromPT /\ i_roots(CallRoots) = 0) =>
        /\ eos_call.exc = "Three roots not possible"
        /\ eos.Vl = <<>> /\ eos.Vg = <<>> /\ eos.phase = ""
        /\ eos.bundle_l = <<>> /\ eos.bundle_g = <<>>

\* a direct call with three real roots, two of them exactly real, was refused
C4_Witness ==
    /\ eos_call.op = "set_from_PT"
    /\ i_roots(eos_call.Vs) = 0
    /\ Len(real_roots(eos_call.Vs)) = 2
    /\ eos_call.exc = "Three roots not possible"

----------------------------------------------------------------------------
(* Claims about the property framework *)

\* xs[i] < xs[j] for every i before j
StrictlyIncreasing(xs) ==
    \A i \in 1..Len(xs), j \in 1..Len(xs) : i < j => xs[i] < xs[j]

SomeInvalid(properties) ==
    \E r \in 1..Len(properties) : \E c \in 1..Len(properties[r]) :
        ~test_property_validity(properties[r][c])

\* C5: assigning to method_P a value that is neither None nor a member of
\* all_methods_P raises ValueError and leaves the object as it was: method_P
\* keeps its value and the cached (T, P) evaluation is not cleared.
\* (checked under SpecTPReg)
C5_RejectedMethodChangesNothing ==
    [][(/\ tp_call'.op = "method_P"
        /\ tp_call'.method # "None"
        /\ tp_call'.method \notin tp.all_methods_P)
       => (/\ tp_call'.exc = "ValueError"
           /\ tp'.method_P = tp.method_P
           /\ tp'.TP_cached = tp.TP_cached
           /\ tp'.prop_cached = tp.prop_cached
           /\ tp' = tp)]_vars

\* an unavailable name was refused while a method was selected and an
\* evaluation was cached
C5_Witness ==
    /\ tp_call.op = "method_P"
    /\ tp_call.method = "UNKNOWN"
    /\ tp_call.exc = "ValueError"
    /\ tp.method_P # "None"
    /\ tp.TP_cached # <<>>

\* C6: add_tabular_data_P raises ValueError whenever Ts or Ps is not strictly
\* increasing or, with check_properties, a property value is not valid; then
\* tabular_data_P, all_methods_P, method_P and the cache are as before.
\* (checked under SpecTPReg)
C6_RejectedDataChangesNothing ==
    [][(/\ tp_call'.op = "add_tabular_data_P"
        /\ \/ ~StrictlyIncreasing(tp_call'.Ts)
           \/ ~StrictlyIncreasing(tp_call'.Ps)
           \/ (tp_call'.check_properties /\ SomeInvalid(tp_call'.properties)))
       => (/\ tp_call'.exc = "ValueError"
           /\ tp'.tabular_data_P = tp.tabular_data_P
           /\ tp'.all_methods_P = tp.all_methods_P
           /\ tp'.method_P = tp.method_P
           /\ tp'.TP_cached = tp.TP_cached
           /\ tp'.prop_cached = tp.prop_cached)]_vars

\* data with a pressure axis that is not increasing was refused by an object
\* that holds other data, a selected method and a cached evaluation
C6_Witness ==
    /\ tp_call.op = "add_tabular_data_P"
    /\ StrictlyIncreasing(tp_call.Ts) /\ ~StrictlyIncreasing(tp_call.Ps)
    /\ tp_call.exc = "ValueError"
    /\ tp_call.method \notin DOMAIN tp.tabular_data_P
    /\ DOMAIN tp.tabular_data_P # {}
    /\ tp.TP_cached # <<>>

\* the pressure-dependent method succeeds at (T, P) when calculate_P does calc
PSucceeds(self, T, P, calc) ==
    /\ self.method_P # "None"
    /\ test_method_validity_P(self, T, P, self.method_P).exc = ""
    /\ test_method_validity_P(self, T, P, self.method_P).ret
    /\ ~calc.raises
    /\ test_property_validity(calc.value)

SelectedThenRanked(self) ==
    LET others == SelectSeq(ranked_methods_P,
                            LAMBDA i : i \in self.all_methods_P /\ i # self.method_P)
    IN  IF self.method_P = "None" THEN others ELSE <<self.method_P>> \o others

\* C9: valid_methods_P(T, P) is a duplicate-free list of members of
\* all_methods_P with the selected method_P first and the other methods in
\* ranked_methods_P order; with T given, it holds exactly those of them that
\* test_method_validity_P accepts.
C9_SelectedMethodFirst ==
    (tp_call.op = "valid_methods_P" /\ tp_call.exc = "") =>
        LET L == tp_call.ret_list
            B == SelectedThenRanked(tp)
        IN  /\ \A i \in 1..Len(L), j \in 1..Len(L) : i # j => L[i] # L[j]
            /\ \A i \in 1..Len(L) : L[i] \in tp.all_methods_P
            /\ IF tp_call.T = NoneVal THEN L = B
               ELSE L = SelectSeq(B, LAMBDA m :
                            test_method_validity_P(tp, tp_call.T, tp_call.P, m).ret)

StrictlyInside(x, axis) == First(axis) < x /\ x < Last(axis)

\* C10: test_method_validity_P(T, P, method): a tabular data set is valid
\* everywhere when extrapolation is permitted, else only strictly inside its
\* Ts and Ps; NEGLECT_P is valid exactly when a low-pressure method is
\* selected and valid at T; another member of all_methods_P exactly when
\* Tmin < T < Tmax; any other name raises ValueError.
\* (checked under SpecTPRead)
C10_ValidityDecision ==
    (tp_call.op = "test_method_validity_P") =>
        LET m == tp_call.method
            T == tp_call.T
            P == tp_call.P
        IN  IF m \in DOMAIN tp.tabular_data_P
            THEN /\ tp_call.exc = ""
                 /\ tp_call.ret_bool =
                       (\/ tp.tabular_extrapolation_permitted
                        \/ /\ StrictlyInside(T, tp.tabular_data_P[m].Ts)
                           /\ StrictlyInside(P, tp.tabular_data_P[m].Ps))
            ELSE IF m = NEGLECT_P
            THEN /\ tp_call.exc = ""
                 /\ tp_call.ret_bool =
                       (tp.method # "None" /\ test_method_validity(T, tp.method))
            ELSE IF m \in tp.all_methods_P
            THEN /\ tp_call.exc = ""
                 /\ tp_call.ret_bool = (T_limits[m][1] < T /\ T < T_limits[m][2])
            ELSE tp_call.exc = "ValueError"

\* a point on the temperature bound of a data set, inside its pressures, was
\* refused while extrapolation was not permitted
C10_Witness ==
    /\ tp_call.op = "test_method_validity_P"
    /\ tp_call.method \in DOMAIN tp.tabular_data_P
    /\ ~tp.tabular_extrapolation_permitted
    /\ tp_call.T = First(tp.tabular_data_P[tp_call.method].Ts)
    /\ StrictlyInside(tp_call.P, tp.tabular_data_P[tp_call.method].Ps)
    /\ tp_call.exc = "" /\ ~tp_call.ret_bool

----------------------------------------------------------------------------
(* Claims about registration and the evaluation cache *)

\* the name a successful add_tabular_data_P step has registered
RegisteredName == tp'.method_P

AddSucceeds == tp_call'.op = "add_tabular_data_P" /\ tp_call'.exc = ""

\* C11: after every successful add_tabular_data_P call the data set is stored
\* in tabular_data_P under its name, the name is a member of all_methods_P and
\* is the selected method_P, and the cached (T,P) evaluation is cleared.
C11_SuccessfulAddSelects ==
    [][AddSucceeds =>
         \E name \in DOMAIN tp'.tabular_data_P :
            /\ tp_call'.method # "None" => name = tp_call'.method
            /\ tp'.tabular_data_P[name] = [Ts |-> tp_call'.Ts, Ps |-> tp_call'.Ps,
                                           properties |-> tp_call'.properties]
            /\ name \in tp'.all_methods_P
            /\ tp'.method_P = name
            /\ tp'.TP_cached = <<>>]_vars

\* a successful add_tabular_data_P has replaced another selected method while
\* an evaluation was cached
C11_Witness ==
    /\ tp_call.op = "add_tabular_data_P" /\ tp_call.exc = ""
    /\ tp_call.method = "mydata" /\ tp.method_P = "mydata"
    /\ "COOLPROP" \in tp.all_methods_P
    /\ tp.TP_cached = <<>>
    /\ tp.prop_cached # NoneVal

\* C12: an add_tabular_data_P call without a name registers the data under an
\* automatic name that no earlier registration holds, so no unnamed
\* registration overwrites an earlier one.
C12_UnnamedNeverOverwrites ==
    [][(AddSucceeds /\ tp_call'.method = "None") =>
         /\ RegisteredName \notin DOMAIN tp.tabular_data_P
         /\ \A k \in DOMAIN tp.tabular_data_P :
               tp'.tabular_data_P[k] = tp.tabular_data_P[k]]_vars

\* C13: every successful assignment to method_P sets TP_cached to None, and
\* the __call__ that follows evaluates the property instead of returning the
\* value cached under the previous selection.
C13_AssignmentClearsCache ==
    [][/\ (tp_call'.op = "method_P" /\ tp_call'.exc = "") => tp'.TP_cached = <<>>
       /\ (tp_call'.op = "__call__" /\ tp.TP_cached = <<>>) =>
             LET r == IF tp_call'.P # NoneVal
                      THEN TP_dependent_property(tp, tp_call'.T, tp_call'.P, tp_call'.calc)
                      ELSE T_dependent_property(tp_call'.tdep)
             IN  tp_call'.ret = r.ret /\ tp_call'.exc = r.exc]_vars

\* an assignment of the method already selected has cleared a cached evaluation
C13_Witness ==
    /\ tp_call.op = "method_P" /\ tp_call.exc = ""
    /\ tp_call.method = tp.method_P /\ tp.method_P = "EOS"
    /\ tp.prop_cached # NoneVal
    /\ tp.TP_cached = <<>>

\* C14: __call__(T, P) returns what TP_dependent_property(T, P), or
\* T_dependent_property(T) when P is None, returns in the current state, after
\* any sequence of method_P assignments, add_tabular_data_P and
\* add_P_correlation registrations and earlier calls; and an evaluation that
\* raises leaves TP_cached and prop_cached unchanged.
C14_CallEqualsUncached ==
    [][tp_call'.op = "__call__" =>
         LET r == uncached(tp, tp_call'.T, tp_call'.P)
         IN  /\ tp_call'.exc = r.exc
             /\ tp_call'.ret = r.ret
             /\ r.exc # "" => /\ tp'.TP_cached = tp.TP_cached
                              /\ tp'.prop_cached = tp.prop_cached]_vars

----------------------------------------------------------------------------
(* Claims about interpolate_P *)

Interpolated == tp_call'.op = "interpolate_P"

\* the data set the interpolate_P step has read
QueriedData == tp.tabular_data_P[tp_call'.method]

\* C15 as stated: interpolate_P uses the cubic spline exactly when a spline
\* exists and the query lies strictly within the data bounds, and the linear
\* extrapolator in every other case, a query exactly on a bound included.
C15_SplineStrictlyInside ==
    [][(Interpolated /\ tp_call'.exc = "") =>
         (tp_call'.tool = "spline" <=>
            /\ tp_call'.pair.spline
            /\ StrictlyInside(tp_call'.T, QueriedData.Ts)
            /\ StrictlyInside(tp_call'.P, QueriedData.Ps))]_vars

\* C15 as the code has it: interpolate_P uses the cubic spline exactly when a
\* spline exists and the query lies within the data bounds, the bounds
\* included; it uses the linear extrapolator when the query is outside the
\* bounds or no spline exists.
C15_SplineWithinBounds ==
    [][(Interpolated /\ tp_call'.exc = "") =>
         /\ tp_call'.tool \in {"spline", "extrapolator"}
         /\ tp_call'.tool = "spline" <=>
               /\ tp_call'.pair.spline
               /\ First(QueriedData.Ts) <= tp_call'.T /\ tp_call'.T <= Last(QueriedData.Ts)
               /\ First(QueriedData.Ps) <= tp_call'.P /\ tp_call'.P <= Last(QueriedData.Ps)]_vars

\* the spline has been used for a query on a bound of the data
C15_Witness ==
    /\ tp_call.op = "interpolate_P" /\ tp_call.exc = ""
    /\ tp_call.tool = "spline"
    /\ tp_call.T = 1 /\ tp_call.P = 5
    /\ tp.tabular_data_P["mydata"].Ts = <<1, 3>>

\* C16: with tabular_extrapolation_permitted false, interpolate_P raises
\* ValueError for every query with T or P outside the stored range and leaves
\* the interpolator cache as it was; with it true, interpolate_P never raises
\* for range reasons.
C16_ExtrapolationGuard ==
    [][(Interpolated /\ tp_call'.method \in DOMAIN tp.tabular_data_P) =>
         /\ (~tp.tabular_extrapolation_permitted
              /\ OutOfRange(tp_call'.T, tp_call'.P, QueriedData.Ts, QueriedData.Ps)) =>
                /\ tp_call'.exc = "ValueError"
                /\ tp'.tabular_data_interpolators_P = tp.tabular_data_interpolators_P
         /\ tp.tabular_extrapolation_permitted => tp_call'.exc # "ValueError"]_vars

\* an out-of-range query has been refused before any interpolator was built
C16_Witness ==
    /\ tp_call.op = "interpolate_P" /\ tp_call.exc = "ValueError"
    /\ tp_call.T = 4
    /\ "mydata" \in DOMAIN tp.tabular_data_P
    /\ ~tp.tabular_extrapolation_permitted
    /\ tp.tabular_data_interpolators_P = <<>>

\* C17: interpolate_P builds the pair of a data set at most once per
\* combination of name and transforms and reuses it; after a transform is
\* replaced, the next call uses a pair built with the new transforms and never
\* evaluates a pair that was built under the old ones.
C17_PairBuiltUnderActiveTransforms ==
    [][(Interpolated /\ tp_call'.exc = "") =>
         /\ interpolators_key(tp, tp_call'.method) \in DOMAIN tp.tabular_data_interpolators_P
               => tp'.tabular_data_interpolators_P = tp.tabular_data_interpolators_P
         /\ tp_call'.pair.interpolation_T = tp.interpolation_T.fn
         /\ tp_call'.pair.interpolation_P = tp.interpolation_P.fn
         /\ tp_call'.pair.interpolation_property = tp.interpolation_property.fn]_vars

----------------------------------------------------------------------------
(* Claims about Wilson *)

\* C18: every derived quantity of a Wilson object is computed at most once per
\* object: the first call computes and stores it, and every later call,
\* direct or from another method that needs it, returns the stored value
\* without recomputing, for any order of calls.
C18_ComputedAtMostOnce ==
    wilson.recomputed = {}

\* C19: for an object whose inputs are not modified, what each
\* derived-quantity method returns is the same for every order and repetition
\* of calls, and equals what a freshly constructed object with the same inputs
\* returns on its first call of that method.
C19_SameAsFreshObject ==
    wilson_call.op \in Quantities =>
        LET fresh == Evaluate(Wilson_init(wilson.inputs), wilson_call.op)
        IN  wilson_call.ret = fresh.ret /\ wilson_call.exc = fresh.exc

----------------------------------------------------------------------------
(* Claims about the constructor of TPDependentProperty *)

\* m is the first entry of ranked_methods_P that is in available, or None if
\* there is none
FirstAvailable(m, available) ==
    IF \A i \in DOMAIN ranked_methods_P : ranked_methods_P[i] \notin available
    THEN m = "None"
    ELSE \E i \in DOMAIN ranked_methods_P :
            /\ m = ranked_methods_P[i]
            /\ m \in available
            /\ \A j \in 1..(i - 1) : ranked_methods_P[j] \notin available

\* C20: given neither method_P nor tabular_data_P, the constructor selects the
\* first entry of ranked_methods_P that is a member of all_methods_P, or None
\* when no ranked method is available; given tabular_data_P without method_P,
\* the last registered data set is the selected method_P.
C20_DefaultMethodP ==
    [][(tp_call'.op = "__init__" /\ tp_call'.exc = "" /\ tp_call'.method = "None") =>
         IF tp_call'.tabular = <<>>
         THEN FirstAvailable(tp'.method_P, tp'.all_methods_P)
         ELSE tp'.method_P = Last(tp_call'.tabular).name]_vars

\* an object has been constructed from two data sets and ranked methods, and
\* the data set registered last is selected
C20_Witness ==
    /\ tp_call.op = "__init__" /\ tp_call.exc = "" /\ tp_call.method = "None"
    /\ Len(tp_call.tabular) = 2
    /\ "COOLPROP" \in tp.all_methods_P
    /\ tp.method_P = "other"

----------------------------------------------------------------------------
(* Claims about the registry of pressure-dependent methods *)

\* C24: after construction and any sequence of add_tabular_data_P,
\* add_P_correlation and method_P assignments, whether they succeed or raise,
\* method_P is None or a member of all_methods_P, and every key of
\* tabular_data_P is a member of all_methods_P.
C24_RegistryInvariant ==
    tp.constructed =>
        /\ tp.method_P = "None" \/ tp.method_P \in tp.all_methods_P
        /\ TabNames(tp) \subseteq tp.all_methods_P

\* a data set is registered and selected, a correlation has been added, and
\* the assignment of an unknown method has just been rejected
C24_Witness ==
    /\ tp.constructed
    /\ tp_call.op = "method_P" /\ tp_call.exc = "ValueError"
    /\ "mydata" \in TabNames(tp) /\ tp.method_P = "mydata"
    /\ "Tait1" \in tp.all_methods

----------------------------------------------------------------------------
(* Claims about interpolation after the data have been replaced *)

\* C25: interpolate_P(T, P, name) always evaluates an interpolator built from
\* the Ts, Ps and properties currently stored in tabular_data_P[name], also
\* after add_tabular_data_P has registered new data under a name that was
\* already registered and already interpolated.
C25_InterpolatorOfCurrentData ==
    [][(Interpolated /\ tp_call'.exc = "") =>
         /\ tp_call'.pair.Ts = QueriedData.Ts
         /\ tp_call'.pair.Ps = QueriedData.Ps
         /\ tp_call'.pair.properties = QueriedData.properties]_vars

----------------------------------------------------------------------------
(* Claims about Wilson after a computation has raised *)

\* C26: if the computation of a derived quantity raises part-way, no partial
\* result is retained on the object: no cached attribute holds a list that was
\* cut short, so that a later call cannot return it and no other method can
\* read it.
C26_NoPartialResultRetained ==
    /\ \A a \in Attributes : wilson.attrs[a] # "partial"
    /\ wilson_call.ret # "partial"

----------------------------------------------------------------------------
(* Claims about the validity test against the interpolator *)

\* the validity test of the data set and point the interpolate_P step was
\* called with, on the object as it was
QueryValid ==
    test_method_validity_P(tp, tp_call'.T, tp_call'.P, tp_call'.method).ret

\* the interpolate_P step was made on a registered data set of an object that
\* does not permit extrapolation
GuardedQuery ==
    /\ Interpolated
    /\ tp_call'.method \in TabNames(tp)
    /\ ~tp.tabular_extrapolation_permitted

\* the point lies on the edge of the data: within the bounds, one of its
\* coordinates on a bound
OnEdge(T, P, Ts, Ps) ==
    /\ First(Ts) <= T /\ T <= Last(Ts) /\ First(Ps) <= P /\ P <= Last(Ps)
    /\ ~(StrictlyInside(T, Ts) /\ StrictlyInside(P, Ps))

\* C28 as stated: with tabular_extrapolation_permitted false,
\* test_method_validity_P(T, P, name) is true if and only if
\* interpolate_P(T, P, name) does not raise the extrapolation-not-permitted
\* error, for every registered data set and every (T, P).
C28_ValidIffNoExtrapolationError ==
    [][GuardedQuery => (QueryValid <=> tp_call'.exc # "ValueError")]_vars

\* C28 as the code has it: a point the validity test accepts never raises the
\* extrapolation-not-permitted error, and the points it rejects that are
\* interpolated all the same are exactly the points on the edge of the data.
C28_AgreeOffTheEdge ==
    [][GuardedQuery =>
         /\ QueryValid => tp_call'.exc # "ValueError"
         /\ (~QueryValid /\ tp_call'.exc # "ValueError")
               <=> OnEdge(tp_call'.T, tp_call'.P, QueriedData.Ts, QueriedData.Ps)]_vars

\* a point on the lower temperature bound has been interpolated without error
\* on an object that does not permit extrapolation
C28_Witness ==
    /\ tp_call.op = "interpolate_P" /\ tp_call.exc = ""
    /\ ~tp.tabular_extrapolation_permitted
    /\ tp_call.method \in TabNames(tp)
    /\ tp_call.T = First(tp.tabular_data_P[tp_call.method].Ts)
    /\ StrictlyInside(tp_call.P, tp.tabular_data_P[tp_call.method].Ps)
    /\ ~test_method_validity_P(tp, tp_call.T, tp_call.P, tp_call.method).ret

----------------------------------------------------------------------------
(* Claims about PR constructed from a volume *)

\* the last call was PR(...) with V and at least one of T and P
VolumeSupplied ==
    /\ eos_call.op = "PR"
    /\ eos_call.V # NoneVal
    /\ eos_call.T # NoneVal \/ eos_call.P # NoneVal

\* C29: when V is supplied to PR together with T or with P, construction
\* takes the single-root path: the 'Three roots not possible' error cannot
\* occur, the supplied V is stored unchanged as exactly one of Vl and Vg (Vl
\* iff PIP classifies it liquid) with the bundle of the same suffix and no
\* attribute of the other phase, phase holds that classification, and the
\* solved third variable (P from T and V, T from P and V) is stored.
C29_SuppliedVolumeSingleRoot ==
    VolumeSupplied =>
        /\ eos_call.exc # "Three roots not possible"
        /\ eos_call.exc = "" =>
             LET V == VRoot(eos_call.V)
                 liquid == eos_call.pip[eos_call.V] > 1
             IN  /\ eos.phase = IF liquid THEN "l" ELSE "g"
                 /\ IF liquid
                    THEN /\ eos.Vl = <<V>> /\ eos.Vg = <<>>
                         /\ eos.bundle_l # <<>> /\ eos.bundle_g = <<>>
                         /\ eos.bundle_l[1].V = V
                    ELSE /\ eos.Vg = <<V>> /\ eos.Vl = <<>>
                         /\ eos.bundle_g # <<>> /\ eos.bundle_l = <<>>
                         /\ eos.bundle_g[1].V = V
                 /\ IF eos_call.P # NoneVal
                    THEN eos.T = <<"T_from_PV", eos_call.P, eos_call.V>>
                    ELSE eos.P = <<"P_from_TV", eos_call.T, eos_call.V>>

\* an object has been constructed from T and V, and the volume is stored as
\* the liquid root
C29_Witness ==
    /\ VolumeSupplied /\ eos_call.P = NoneVal /\ eos_call.exc = ""
    /\ eos.constructed
    /\ eos.Vl = <<VRoot(eos_call.V)>> /\ eos.phase = "l"
    /\ eos.P = <<"P_from_TV", eos_call.T, eos_call.V>>

----------------------------------------------------------------------------
(* Claims about PR constructed along two paths *)

\* the step constructs a state again from what a state constructed from T and
\* V holds
Reconstructed ==
    /\ eos_call.op = "PR" /\ eos_call.exc = ""
    /\ eos_call.T # NoneVal /\ eos_call.V # NoneVal /\ eos_call.P = NoneVal
    /\ eos_call'.op = "PR"
    /\ eos_call'.P = PressureOf(eos_call.T, eos_call.V)

\* the temperature an object holds: supplied, or solved from P and V
HeldT(obj) ==
    IF obj.T = <<>> THEN NoneVal
    ELSE IF obj.T[1] = "given" THEN obj.T[2]
    ELSE T_from_PV(obj.T[2], obj.T[3])

\* C23: for a PR state constructed from (Tc, Pc, omega, T, V) with V its
\* liquid-phase root, constructing again from the resulting (T, P) reproduces
\* the same liquid-phase volume root V, and constructing from (P, V)
\* reproduces the same T.
C23_RoundTrip ==
    [][(Reconstructed /\ eos.Vl = <<VRoot(eos_call.V)>>) =>
         /\ eos_call'.exc = ""
         /\ eos'.Vl = <<VRoot(eos_call.V)>>
         /\ HeldT(eos') = eos_call.T]_vars

----------------------------------------------------------------------------
(* Claims about the composition derivatives of Wilson *)

\* C30: the composition-derivative tensors are symmetric for every
\* composition and every (in general asymmetric) Lambda matrix, in exact
\* arithmetic: d2GE_dxixjs()[k][m] = d2GE_dxixjs()[m][k] for all k, m, and
\* d3GE_dxixjxks()[k][m][n] takes the same value under every permutation of
\* (k, m, n).
C30_TensorsSymmetric ==
    fn_call.op = "Wilson" =>
        LET d2 == fn_call.ret.d2GE_dxixjs
            d3 == fn_call.ret.d3GE_dxixjxks
        IN  /\ \A k \in cmps, m \in cmps : d2[k][m] = d2[m][k]
            /\ \A k \in cmps, m \in cmps, n \in cmps :
                 /\ d3[k][m][n] = d3[m][k][n]
                 /\ d3[k][m][n] = d3[k][n][m]
                 /\ d3[k][m][n] = d3[n][m][k]
                 /\ d3[k][m][n] = d3[m][n][k]
                 /\ d3[k][m][n] = d3[n][k][m]

\* the tensors have been computed for an asymmetric matrix and an uneven
\* composition, and their entries differ from one pair of components to another
C30_Witness ==
    /\ fn_call.op = "Wilson"
    /\ fn_call.args.lambdas[1][2] # fn_call.args.lambdas[2][1]
    /\ fn_call.args.lambdas[2][3] # fn_call.args.lambdas[3][2]
    /\ fn_call.args.xs[1] # fn_call.args.xs[3]
    /\ fn_call.ret.d2GE_dxixjs[1][2] # fn_call.ret.d2GE_dxixjs[1][3]
    /\ fn_call.ret.d3GE_dxixjxks[1][2][3] # fn_call.ret.d3GE_dxixjxks[1][2][2]


(***************************************************************************)
(* C27                                                                     *)
(***************************************************************************)

\* C27: add_P_correlation(name, model, ...) records the parameters under
\* <model>_parameters[name] and under P_correlations[name], adds name to
\* all_methods and makes it the selected low-pressure method; it leaves
\* all_methods_P, method_P, tabular_data_P and the cached (T, P) evaluation as
\* they were, so that a name registered only this way is rejected by a later
\* assignment to method_P.
C27_CorrelationFrame ==
    [][ tp_call'.op = "add_P_correlation" =>
          LET name == tp_call'.method
              model == tp_call'.args[1]
              kwargs == tp_call'.args[2]
          IN  /\ tp_call'.exc = ""
              /\ <<model, name>> \in DOMAIN tp'.parameters
              /\ tp'.parameters[<<model, name>>] = kwargs
              /\ name \in DOMAIN tp'.P_correlations
              /\ tp'.P_correlations[name] = kwargs
              /\ tp'.all_methods = tp.all_methods \cup {name}
              /\ tp'.method = name
              /\ tp'.all_methods_P = tp.all_methods_P
              /\ tp'.method_P = tp.method_P
              /\ tp'.tabular_data_P = tp.tabular_data_P
              /\ tp'.TP_cached = tp.TP_cached
              /\ tp'.prop_cached = tp.prop_cached
              /\ (name \notin tp.all_methods_P =>
                    method_P_setter(tp', name).exc = "ValueError")
      ]_vars

\* a correlation has been registered on an object that had a pressure-dependent
\* method selected and a cached evaluation
C27_Witness ==
    /\ tp_call.op = "add_P_correlation"
    /\ tp_call.exc = ""
    /\ tp.method = tp_call.method
    /\ tp.method_P # "None"
    /\ tp.TP_cached # <<>>
    /\ tp.tabular_data_P # <<>>
    /\ tp_call.method \notin tp.all_methods_P


(***************************************************************************)
(* C21                                                                     *)
(***************************************************************************)

\* the columns of the table a property is computed from
RequiredColumns(property) ==
    CASE property = "Tb" -> {"Tb"}
      [] property = "Tc" -> {"Tb", "Tc"}
      [] OTHER -> {"mua", "mub"}

\* the call lacks a contribution of a matched group to the property
Incomplete(property) ==
    \E g \in MatchedGroups(fn_call.args.counts), c \in RequiredColumns(property) :
        <<g, c>> \in fn_call.args.missing

\* C21: the Joback estimate raises ValueError exactly when no group matches
\* the molecule; when a group matches it returns a result in which exactly the
\* properties with an incomplete set of contributions are None and the others
\* are estimated: a missing contribution never raises.
C21_AbsentNotRaised ==
    fn_call.op = "Joback.estimate" =>
        /\ fn_call.exc \in {"", "ValueError"}
        /\ fn_call.exc = "ValueError" <=> MatchedGroups(fn_call.args.counts) = {}
        /\ fn_call.exc = "" =>
             /\ DOMAIN fn_call.ret = JobackProperties
             /\ \A p \in JobackProperties : fn_call.ret[p] = <<>> <=> Incomplete(p)

\* the nitrobenzene case: ring carbons and a nitro group matched, the nitro
\* group without viscosity contributions, Tb and Tc estimated all the same
C21_Witness ==
    /\ fn_call.op = "Joback.estimate"
    /\ fn_call.exc = ""
    /\ fn_call.args.counts["-NO2"] = 1
    /\ fn_call.args.counts["=CH- (ring)"] > 0
    /\ <<"-NO2", "mua">> \in fn_call.args.missing
    /\ fn_call.ret["mul_coeffs"] = <<>>
    /\ fn_call.ret["Tb"] # <<>>
    /\ fn_call.ret["Tc"] # <<>>


(***************************************************************************)
(* C22                                                                     *)
(***************************************************************************)

\* the lists of the call that both kernels read
GivenLists ==
    [a_alphas |-> fn_call.args.a_alphas, a_alpha_roots |-> fn_call.args.a_alpha_roots,
     zs |-> fn_call.args.zs, kijs |-> fn_call.args.kijs]

\* result r has the row sums and the mixture a_alpha of the formulas
RowsAndTotal(r) ==
    /\ \A i \in MixComponents :
         r.a_alpha_j_rows[i] =
             SumOver([j \in MixComponents |->
                        fn_call.args.zs[j]
                          * fn_call.args.a_alpha_roots[i] * fn_call.args.a_alpha_roots[j]
                          * (1 - fn_call.args.kijs[i][j])],
                     MixComponents)
    /\ r.a_alpha = SumOver([i \in MixComponents |->
                              fn_call.args.zs[i] * r.a_alpha_j_rows[i]],
                           MixComponents)

===========================================================================
